---- MODULE Spec2Model ----
(***************************************************************************)
(* Model of the lambda-calculus engine of src/src/lambda.cpp and           *)
(* src/include/lambda.hpp: De Bruijn-level terms (var / func / app) with a *)
(* cached size, lift, substitute, reduce_one_step and the bounded          *)
(* normalize driver.                                                       *)
(*                                                                         *)
(* A term is a record carrying the dynamic type in "tag" and the members   *)
(* of the C++ object (m_size of the expr base, m_index, m_body, m_lhs,     *)
(* m_rhs).  A null unique_ptr is the record nullptr.  The step limit, the  *)
(* size limit and the step counter of normalize are 64-bit size_t values,  *)
(* held as four 16-bit digits so that the default limit is 2^64 - 1; the   *)
(* sizes and indices of the terms drawn here stay far below 2^31 and the   *)
(* arithmetic on them is modelled on the integers.                         *)
(*                                                                         *)
(* Spec and FairSpec take the terms as values.  HeapSpec follows them as   *)
(* objects: nodes allocated on a heap, owned through unique_ptrs and       *)
(* destroyed with their owner, under the same operations.                  *)
(***************************************************************************)
EXTENDS Integers, Sequences, FiniteSets, TLC

\* ------------------------------------------------------------------------
\* Bounds of the model
\* ------------------------------------------------------------------------
\* largest variable index of the generated input terms
MaxIndex == 2
\* largest size of the exhaustively generated input terms
MaxTermSize == 5
\* largest size of the argument term handed to substitute
MaxArgSize == 2
\* largest lift amount handed to lift / substitute
MaxLift == 2
\* largest finite step limit handed to normalize
MaxStepLimit == 3
\* largest finite size limit handed to normalize
MaxSizeLimit == 4
\* cap on the number of reductions one normalize run of the model commits
MaxSteps == 8
\* largest size of a term on a reduction sequence of arbitrarily chosen redexes
MaxReductSize == 20
\* largest number of helpers handed to construct_program
MaxHelpers == 2
\* largest size of the exhaustively generated terms built on the heap
MaxOwnedSize == 3

\* ------------------------------------------------------------------------
\* Program constants
\* ------------------------------------------------------------------------
\* a size_t of 64 bits is the sequence of its four base-2^16 digits, the most
\* significant first
Limb == 65536

\* the size_t of a number below 2^31
size_t(n) == <<0, 0, n \div Limb, n % Limb>>

\* the number a size_t below 2^31 stands for
value(x) == x[3] * Limb + x[4]

\* x < y on size_t: the first digit that differs decides
less(x, y) ==
    \E p \in {<<x, y>>} :
        \E i \in 1..4 :
            /\ p[1][i] < p[2][i]
            /\ \A j \in 1..(i - 1) : p[1][j] = p[2][j]

\* x <= y on size_t
less_equal(x, y) == x = y \/ less(x, y)

\* ++x on size_t: 2^64 - 1 wraps to 0
increment(x) ==
    IF x[4] < Limb - 1 THEN <<x[1], x[2], x[3], x[4] + 1>>
    ELSE IF x[3] < Limb - 1 THEN <<x[1], x[2], x[3] + 1, 0>>
    ELSE IF x[2] < Limb - 1 THEN <<x[1], x[2] + 1, 0, 0>>
    ELSE IF x[1] < Limb - 1 THEN <<x[1] + 1, 0, 0, 0>>
    ELSE <<0, 0, 0, 0>>

\* std::numeric_limits<size_t>::max() = 2^64 - 1, the default ("unlimited")
\* limit
SIZE_MAX == <<Limb - 1, Limb - 1, Limb - 1, Limb - 1>>
\* std::numeric_limits<size_t>::min(), the initial m_size_peak
SIZE_MIN == 0

\* a null std::unique_ptr<expr>
nullptr == [tag |-> "null"]

\* ------------------------------------------------------------------------
\* Constructors and factory functions
\* ------------------------------------------------------------------------
\* var::var : expr(1), m_index(a_index)
v(a_index) == [tag |-> "var", m_size |-> 1, m_index |-> a_index]

\* func::func : expr(1 + a_body->size()), m_body(a_body)
f(a_body) == [tag |-> "func", m_size |-> 1 + a_body.m_size, m_body |-> a_body]

\* app::app : expr(1 + a_lhs->size() + a_rhs->size()), m_lhs, m_rhs
a(a_lhs, a_rhs) ==
    [tag |-> "app", m_size |-> 1 + a_lhs.m_size + a_rhs.m_size,
     m_lhs |-> a_lhs, m_rhs |-> a_rhs]

\* expr::size
size(e) == e.m_size

\* ------------------------------------------------------------------------
\* equals
\* ------------------------------------------------------------------------
RECURSIVE equals(_, _)

var_equals(e, a_other) ==
    IF a_other.tag # "var" THEN FALSE ELSE e.m_index = a_other.m_index

func_equals(e, a_other) ==
    IF a_other.tag # "func" THEN FALSE ELSE equals(e.m_body, a_other.m_body)

app_equals(e, a_other) ==
    IF a_other.tag # "app" THEN FALSE
    ELSE equals(e.m_lhs, a_other.m_lhs) /\ equals(e.m_rhs, a_other.m_rhs)

\* virtual dispatch of expr::equals
equals(e, a_other) ==
    CASE e.tag = "var"  -> var_equals(e, a_other)
      [] e.tag = "func" -> func_equals(e, a_other)
      [] e.tag = "app"  -> app_equals(e, a_other)

\* ------------------------------------------------------------------------
\* lift
\* ------------------------------------------------------------------------
RECURSIVE lift(_, _, _)

\* var::lift that leaves the variable at the cutoff where it is
var_lift_cutoff_exclusive(e, a_lift_amount, a_cutoff) ==
    IF e.m_index <= a_cutoff THEN v(e.m_index)
    ELSE v(e.m_index + a_lift_amount)

var_lift(e, a_lift_amount, a_cutoff) ==
    IF e.m_index < a_cutoff THEN v(e.m_index)
    ELSE v(e.m_index + a_lift_amount)

\* func::lift that raises the cutoff when it crosses the binder
func_lift_cutoff_incremented(e, a_lift_amount, a_cutoff) ==
    f(lift(e.m_body, a_lift_amount, a_cutoff + 1))

func_lift(e, a_lift_amount, a_cutoff) ==
    f(lift(e.m_body, a_lift_amount, a_cutoff))

\* app::lift that lifts the left side twice and drops the right side
app_lift_lhs_twice(e, a_lift_amount, a_cutoff) ==
    a(lift(e.m_lhs, a_lift_amount, a_cutoff),
      lift(e.m_lhs, a_lift_amount, a_cutoff))

app_lift(e, a_lift_amount, a_cutoff) ==
    a(lift(e.m_lhs, a_lift_amount, a_cutoff),
      lift(e.m_rhs, a_lift_amount, a_cutoff))

\* virtual dispatch of expr::lift
lift(e, a_lift_amount, a_cutoff) ==
    CASE e.tag = "var"  -> var_lift(e, a_lift_amount, a_cutoff)
      [] e.tag = "func" -> func_lift(e, a_lift_amount, a_cutoff)
      [] e.tag = "app"  -> app_lift(e, a_lift_amount, a_cutoff)

\* expr::clone
clone(e) == lift(e, 0, 0)

\* ------------------------------------------------------------------------
\* substitute
\* ------------------------------------------------------------------------
RECURSIVE substitute(_, _, _, _)

\* var::substitute that lifts the variables declared outside the redex by the
\* number of binders crossed instead of leaving them alone
var_substitute_outer_lifted(e, a_lift_amount, a_var_index, a_arg) ==
    IF e.m_index > a_var_index THEN v(e.m_index - 1)
    ELSE IF e.m_index < a_var_index THEN lift(e, a_lift_amount, 0)
    ELSE lift(a_arg, a_lift_amount, a_var_index)

\* var::substitute that keeps the index of a variable above the replaced one
var_substitute_no_decrement(e, a_lift_amount, a_var_index, a_arg) ==
    IF e.m_index > a_var_index THEN v(e.m_index)
    ELSE IF e.m_index < a_var_index THEN clone(e)
    ELSE lift(a_arg, a_lift_amount, a_var_index)

\* var::substitute that puts the argument in place without lifting it
var_substitute_arg_unlifted(e, a_lift_amount, a_var_index, a_arg) ==
    IF e.m_index > a_var_index THEN v(e.m_index - 1)
    ELSE IF e.m_index < a_var_index THEN clone(e)
    ELSE clone(a_arg)

\* var::substitute that also decrements the variable it is asked to replace:
\* the decrement of index 0 leaves the indices 0 and above, which the model
\* shows as the index -1
var_substitute_decrement_at_index(e, a_lift_amount, a_var_index, a_arg) ==
    IF e.m_index >= a_var_index THEN v(e.m_index - 1) ELSE clone(e)

var_substitute(e, a_lift_amount, a_var_index, a_arg) ==
    IF e.m_index > a_var_index THEN v(e.m_index - 1)
    ELSE IF e.m_index < a_var_index THEN clone(e)
    ELSE lift(a_arg, a_lift_amount, a_var_index)

\* func::substitute that rewrites the body inside the existing node and
\* leaves the size cached in the node as it was
func_substitute_in_place(e, a_lift_amount, a_var_index, a_arg) ==
    [e EXCEPT !.m_body =
                  substitute(e.m_body, a_lift_amount + 1, a_var_index, a_arg)]

\* func::substitute that returns the abstraction as it is
func_substitute_body_kept(e, a_lift_amount, a_var_index, a_arg) ==
    f(clone(e.m_body))

\* func::substitute that does not count the binder it crosses
func_substitute_no_increment(e, a_lift_amount, a_var_index, a_arg) ==
    f(substitute(e.m_body, a_lift_amount, a_var_index, a_arg))

func_substitute(e, a_lift_amount, a_var_index, a_arg) ==
    f(substitute(e.m_body, a_lift_amount + 1, a_var_index, a_arg))

\* app::substitute that substitutes in the left side only
app_substitute_rhs_kept(e, a_lift_amount, a_var_index, a_arg) ==
    a(substitute(e.m_lhs, a_lift_amount, a_var_index, a_arg),
      clone(e.m_rhs))

app_substitute(e, a_lift_amount, a_var_index, a_arg) ==
    a(substitute(e.m_lhs, a_lift_amount, a_var_index, a_arg),
      substitute(e.m_rhs, a_lift_amount, a_var_index, a_arg))

\* virtual dispatch of expr::substitute
substitute(e, a_lift_amount, a_var_index, a_arg) ==
    CASE e.tag = "var"  -> var_substitute(e, a_lift_amount, a_var_index, a_arg)
      [] e.tag = "func" -> func_substitute(e, a_lift_amount, a_var_index, a_arg)
      [] e.tag = "app"  -> app_substitute(e, a_lift_amount, a_var_index, a_arg)

\* ------------------------------------------------------------------------
\* reduce_one_step
\* ------------------------------------------------------------------------
RECURSIVE reduce_one_step(_, _)

var_reduce_one_step(e, a_depth) == nullptr

\* func::reduce_one_step that returns the reduced body without the
\* abstraction around it
func_reduce_one_step_unwrapped(e, a_depth) ==
    reduce_one_step(e.m_body, a_depth + 1)

\* func::reduce_one_step that does not count the binder it crosses
func_reduce_one_step_same_depth(e, a_depth) ==
    LET l_reduced_body == reduce_one_step(e.m_body, a_depth)
    IN  IF l_reduced_body = nullptr THEN nullptr
        ELSE f(l_reduced_body)

func_reduce_one_step(e, a_depth) ==
    LET l_reduced_body == reduce_one_step(e.m_body, a_depth + 1)
    IN  IF l_reduced_body = nullptr THEN nullptr
        ELSE f(l_reduced_body)

\* app_reduce_one_step that looks into the function side before it tests
\* whether the application is itself a redex
app_reduce_one_step_inner_first(e, a_depth) ==
    LET l_reduced_lhs == reduce_one_step(e.m_lhs, a_depth)
    IN  IF l_reduced_lhs # nullptr
        THEN a(l_reduced_lhs, clone(e.m_rhs))
        ELSE IF e.m_lhs.tag = "func"
        THEN substitute(e.m_lhs.m_body, 0, a_depth, e.m_rhs)
        ELSE LET l_reduced_rhs == reduce_one_step(e.m_rhs, a_depth)
             IN  IF l_reduced_rhs # nullptr
                 THEN a(clone(e.m_lhs), l_reduced_rhs)
                 ELSE nullptr

\* app_reduce_one_step that tries the right side before the left side
app_reduce_one_step_rhs_first(e, a_depth) ==
    IF e.m_lhs.tag = "func"
    THEN substitute(e.m_lhs.m_body, 0, a_depth, e.m_rhs)
    ELSE LET l_reduced_rhs == reduce_one_step(e.m_rhs, a_depth)
         IN  IF l_reduced_rhs # nullptr
             THEN a(clone(e.m_lhs), l_reduced_rhs)
             ELSE LET l_reduced_lhs == reduce_one_step(e.m_lhs, a_depth)
                  IN  IF l_reduced_lhs # nullptr
                      THEN a(l_reduced_lhs, clone(e.m_rhs))
                      ELSE nullptr

\* app_reduce_one_step in applicative order: the argument is reduced first,
\* then the function side, and the redex itself is contracted last
app_reduce_one_step_applicative(e, a_depth) ==
    LET l_reduced_rhs == reduce_one_step(e.m_rhs, a_depth)
    IN  IF l_reduced_rhs # nullptr
        THEN a(clone(e.m_lhs), l_reduced_rhs)
        ELSE LET l_reduced_lhs == reduce_one_step(e.m_lhs, a_depth)
             IN  IF l_reduced_lhs # nullptr
                 THEN a(l_reduced_lhs, clone(e.m_rhs))
                 ELSE IF e.m_lhs.tag = "func"
                 THEN substitute(e.m_lhs.m_body, 0, a_depth, e.m_rhs)
                 ELSE nullptr

app_reduce_one_step(e, a_depth) ==
    IF e.m_lhs.tag = "func"
    THEN substitute(e.m_lhs.m_body, 0, a_depth, e.m_rhs)
    ELSE LET l_reduced_lhs == reduce_one_step(e.m_lhs, a_depth)
         IN  IF l_reduced_lhs # nullptr
             THEN a(l_reduced_lhs, clone(e.m_rhs))
             ELSE LET l_reduced_rhs == reduce_one_step(e.m_rhs, a_depth)
                  IN  IF l_reduced_rhs # nullptr
                      THEN a(clone(e.m_lhs), l_reduced_rhs)
                      ELSE nullptr

\* virtual dispatch of expr::reduce_one_step
reduce_one_step(e, a_depth) ==
    CASE e.tag = "var"  -> var_reduce_one_step(e, a_depth)
      [] e.tag = "func" -> func_reduce_one_step(e, a_depth)
      [] e.tag = "app"  -> app_reduce_one_step(e, a_depth)

\* ------------------------------------------------------------------------
\* normalize
\* ------------------------------------------------------------------------
\* std::max
max(x, y) == IF x < y THEN y ELSE x

\* the initializer of l_result with the peak started at the size of the term
normalize_init_peak_of_input(e) ==
    [m_step_excess |-> FALSE, m_size_excess |-> FALSE,
     m_step_count |-> size_t(0), m_size_peak |-> size(e), m_expr |-> clone(e)]

\* the initializer of l_result in expr::normalize
normalize_init(e) ==
    [m_step_excess |-> FALSE, m_size_excess |-> FALSE,
     m_step_count |-> size_t(0), m_size_peak |-> SIZE_MIN, m_expr |-> clone(e)]

\* normalize_body that tests the size of the term it holds instead of the
\* size of the candidate
normalize_body_size_of_current(r, a_step_limit, a_size_limit) ==
    LET l_reduced == reduce_one_step(r.m_expr, 0)
    IN  IF l_reduced = nullptr
        THEN [l_result |-> r, brk |-> TRUE]
        ELSE IF r.m_step_count = a_step_limit
        THEN [l_result |-> [r EXCEPT !.m_step_excess = TRUE], brk |-> TRUE]
        ELSE IF less(a_size_limit, size_t(size(r.m_expr)))
        THEN [l_result |-> [r EXCEPT !.m_size_excess = TRUE], brk |-> TRUE]
        ELSE [l_result |-> [r EXCEPT !.m_step_count = increment(r.m_step_count),
                                     !.m_size_peak =
                                         max(r.m_size_peak, size(l_reduced)),
                                     !.m_expr = l_reduced],
              brk |-> FALSE]

\* normalize_body that tests the size limit before the step limit
normalize_body_size_first(r, a_step_limit, a_size_limit) ==
    LET l_reduced == reduce_one_step(r.m_expr, 0)
    IN  IF l_reduced = nullptr
        THEN [l_result |-> r, brk |-> TRUE]
        ELSE IF less(a_size_limit, size_t(size(l_reduced)))
        THEN [l_result |-> [r EXCEPT !.m_size_excess = TRUE], brk |-> TRUE]
        ELSE IF r.m_step_count = a_step_limit
        THEN [l_result |-> [r EXCEPT !.m_step_excess = TRUE], brk |-> TRUE]
        ELSE [l_result |-> [r EXCEPT !.m_step_count = increment(r.m_step_count),
                                     !.m_size_peak =
                                         max(r.m_size_peak, size(l_reduced)),
                                     !.m_expr = l_reduced],
              brk |-> FALSE]

\* normalize_body that goes on to the size test after the step limit was hit
normalize_body_both_flags(r, a_step_limit, a_size_limit) ==
    LET l_reduced == reduce_one_step(r.m_expr, 0)
    IN  IF l_reduced = nullptr
        THEN [l_result |-> r, brk |-> TRUE]
        ELSE IF \/ r.m_step_count = a_step_limit
                \/ less(a_size_limit, size_t(size(l_reduced)))
        THEN [l_result |->
                  [r EXCEPT !.m_step_excess = (r.m_step_count = a_step_limit),
                            !.m_size_excess =
                                less(a_size_limit, size_t(size(l_reduced)))],
              brk |-> TRUE]
        ELSE [l_result |-> [r EXCEPT !.m_step_count = increment(r.m_step_count),
                                     !.m_size_peak =
                                         max(r.m_size_peak, size(l_reduced)),
                                     !.m_expr = l_reduced],
              brk |-> FALSE]

\* normalize_body that commits the candidate that is over the size limit
\* before it leaves the loop
normalize_body_size_no_break(r, a_step_limit, a_size_limit) ==
    LET l_reduced == reduce_one_step(r.m_expr, 0)
    IN  IF l_reduced = nullptr
        THEN [l_result |-> r, brk |-> TRUE]
        ELSE IF r.m_step_count = a_step_limit
        THEN [l_result |-> [r EXCEPT !.m_step_excess = TRUE], brk |-> TRUE]
        ELSE [l_result |-> [r EXCEPT !.m_size_excess =
                                         less(a_size_limit,
                                              size_t(size(l_reduced))),
                                     !.m_step_count = increment(r.m_step_count),
                                     !.m_size_peak =
                                         max(r.m_size_peak, size(l_reduced)),
                                     !.m_expr = l_reduced],
              brk |-> less(a_size_limit, size_t(size(l_reduced)))]

\* normalize_body that never tests the step limit
normalize_body_no_step_limit(r, a_step_limit, a_size_limit) ==
    LET l_reduced == reduce_one_step(r.m_expr, 0)
    IN  IF l_reduced = nullptr
        THEN [l_result |-> r, brk |-> TRUE]
        ELSE IF less(a_size_limit, size_t(size(l_reduced)))
        THEN [l_result |-> [r EXCEPT !.m_size_excess = TRUE], brk |-> TRUE]
        ELSE [l_result |-> [r EXCEPT !.m_step_count = increment(r.m_step_count),
                                     !.m_size_peak =
                                         max(r.m_size_peak, size(l_reduced)),
                                     !.m_expr = l_reduced],
              brk |-> FALSE]

\* normalize_body with the step limit tested one reduction too late
normalize_body_late_limit(r, a_step_limit, a_size_limit) ==
    LET l_reduced == reduce_one_step(r.m_expr, 0)
    IN  IF l_reduced = nullptr
        THEN [l_result |-> r, brk |-> TRUE]
        ELSE IF r.m_step_count = increment(a_step_limit)
        THEN [l_result |-> [r EXCEPT !.m_step_excess = TRUE], brk |-> TRUE]
        ELSE IF less(a_size_limit, size_t(size(l_reduced)))
        THEN [l_result |-> [r EXCEPT !.m_size_excess = TRUE], brk |-> TRUE]
        ELSE [l_result |-> [r EXCEPT !.m_step_count = increment(r.m_step_count),
                                     !.m_size_peak =
                                         max(r.m_size_peak, size(l_reduced)),
                                     !.m_expr = l_reduced],
              brk |-> FALSE]

\* normalize_body with the size limit tested with >= instead of >
normalize_body_size_ge(r, a_step_limit, a_size_limit) ==
    LET l_reduced == reduce_one_step(r.m_expr, 0)
    IN  IF l_reduced = nullptr
        THEN [l_result |-> r, brk |-> TRUE]
        ELSE IF r.m_step_count = a_step_limit
        THEN [l_result |-> [r EXCEPT !.m_step_excess = TRUE], brk |-> TRUE]
        ELSE IF less_equal(a_size_limit, size_t(size(l_reduced)))
        THEN [l_result |-> [r EXCEPT !.m_size_excess = TRUE], brk |-> TRUE]
        ELSE [l_result |-> [r EXCEPT !.m_step_count = increment(r.m_step_count),
                                     !.m_size_peak =
                                         max(r.m_size_peak, size(l_reduced)),
                                     !.m_expr = l_reduced],
              brk |-> FALSE]

\* normalize_body with the step limit tested before a reduction is looked for
normalize_body_limit_first(r, a_step_limit, a_size_limit) ==
    LET l_reduced == reduce_one_step(r.m_expr, 0)
    IN  IF r.m_step_count = a_step_limit
        THEN [l_result |-> [r EXCEPT !.m_step_excess = TRUE], brk |-> TRUE]
        ELSE IF l_reduced = nullptr
        THEN [l_result |-> r, brk |-> TRUE]
        ELSE IF less(a_size_limit, size_t(size(l_reduced)))
        THEN [l_result |-> [r EXCEPT !.m_size_excess = TRUE], brk |-> TRUE]
        ELSE [l_result |-> [r EXCEPT !.m_step_count = increment(r.m_step_count),
                                     !.m_size_peak =
                                         max(r.m_size_peak, size(l_reduced)),
                                     !.m_expr = l_reduced],
              brk |-> FALSE]

\* normalize_body that takes a term which reduces to itself for a normal form
normalize_body_fixed_point(r, a_step_limit, a_size_limit) ==
    LET l_reduced == reduce_one_step(r.m_expr, 0)
    IN  IF l_reduced = nullptr \/ l_reduced = r.m_expr
        THEN [l_result |-> r, brk |-> TRUE]
        ELSE IF r.m_step_count = a_step_limit
        THEN [l_result |-> [r EXCEPT !.m_step_excess = TRUE], brk |-> TRUE]
        ELSE IF less(a_size_limit, size_t(size(l_reduced)))
        THEN [l_result |-> [r EXCEPT !.m_size_excess = TRUE], brk |-> TRUE]
        ELSE [l_result |-> [r EXCEPT !.m_step_count = increment(r.m_step_count),
                                     !.m_size_peak =
                                         max(r.m_size_peak, size(l_reduced)),
                                     !.m_expr = l_reduced],
              brk |-> FALSE]

\* the loop body of expr::normalize for the candidate l_reduced that the
\* while condition produced; "brk" tells that the loop was left (condition
\* false, or a break)
normalize_pass(r, l_reduced, a_step_limit, a_size_limit) ==
    IF l_reduced = nullptr
    THEN [l_result |-> r, brk |-> TRUE]
    ELSE IF r.m_step_count = a_step_limit
    THEN [l_result |-> [r EXCEPT !.m_step_excess = TRUE], brk |-> TRUE]
    ELSE IF less(a_size_limit, size_t(size(l_reduced)))
    THEN [l_result |-> [r EXCEPT !.m_size_excess = TRUE], brk |-> TRUE]
    ELSE [l_result |-> [r EXCEPT !.m_step_count = increment(r.m_step_count),
                                 !.m_size_peak =
                                     max(r.m_size_peak, size(l_reduced)),
                                 !.m_expr = l_reduced],
          brk |-> FALSE]

\* one evaluation of the while condition followed by the loop body: the
\* condition calls reduce_one_step once and binds its result to l_reduced
normalize_body(r, a_step_limit, a_size_limit) ==
    CHOOSE l_pass \in
        {normalize_pass(r, l_reduced, a_step_limit, a_size_limit) :
             l_reduced \in {reduce_one_step(r.m_expr, 0)}} : TRUE

\* expr::normalize as a whole: the passes of the loop from l_result on, up
\* to the pass that leaves it
RECURSIVE normalize_loop(_, _, _)
normalize_loop(r, a_step_limit, a_size_limit) ==
    LET l_pass == normalize_body(r, a_step_limit, a_size_limit)
    IN  IF l_pass.brk THEN l_pass.l_result
        ELSE normalize_loop(l_pass.l_result, a_step_limit, a_size_limit)

normalize(e, a_step_limit, a_size_limit) ==
    normalize_loop(normalize_init(e), a_step_limit, a_size_limit)

\* ------------------------------------------------------------------------
\* construct_program
\* ------------------------------------------------------------------------
\* the iterator range [a_helpers_begin, a_helpers_end) is the sequence of the
\* helpers not yet consumed; std::next is Tail
\* construct_program that binds the helpers in the reverse order: the last
\* helper becomes the argument of the outermost application
RECURSIVE construct_program_reversed(_, _)
construct_program_reversed(a_helpers_begin, a_main_fn) ==
    IF a_helpers_begin = <<>>
    THEN clone(a_main_fn)
    ELSE a(f(construct_program_reversed(
                 SubSeq(a_helpers_begin, 1, Len(a_helpers_begin) - 1),
                 a_main_fn)),
           clone(a_helpers_begin[Len(a_helpers_begin)]))

RECURSIVE construct_program(_, _)
construct_program(a_helpers_begin, a_main_fn) ==
    IF a_helpers_begin = <<>>
    THEN clone(a_main_fn)
    ELSE a(f(construct_program(Tail(a_helpers_begin), a_main_fn)),
           clone(Head(a_helpers_begin)))

\* ------------------------------------------------------------------------
\* The operations on owned nodes
\* ------------------------------------------------------------------------
\* The operations once more, on the objects themselves: a heap is the
\* sequence of the nodes allocated so far, a std::unique_ptr<expr> is the
\* position of the node it owns, and a node holds the unique_ptrs of its
\* children.  Every operation takes the heap and returns the heap it leaves
\* behind together with the pointer it returns.  The order in which the two
\* arguments of a(..., ...) are evaluated, which C++ leaves open, only
\* decides which positions the new nodes get.

\* a null std::unique_ptr<expr> on the heap
heap_nullptr == 0

\* the place of a node whose destructor has run
freed == [tag |-> "freed"]

\* v: new var(a_index)
heap_v(h, a_index) ==
    [h |-> Append(h, [tag |-> "var", m_size |-> 1, m_index |-> a_index]),
     p |-> Len(h) + 1]

\* f: new func(std::move(a_body)), which takes over the body
heap_f(h, a_body) ==
    [h |-> Append(h, [tag |-> "func", m_size |-> 1 + h[a_body].m_size,
                      m_body |-> a_body]),
     p |-> Len(h) + 1]

\* a: new app(std::move(a_lhs), std::move(a_rhs)), which takes over both
heap_a(h, a_lhs, a_rhs) ==
    [h |-> Append(h, [tag |-> "app",
                      m_size |-> 1 + h[a_lhs].m_size + h[a_rhs].m_size,
                      m_lhs |-> a_lhs, m_rhs |-> a_rhs]),
     p |-> Len(h) + 1]

\* ~expr: the destructor of the node a unique_ptr owns, which destroys the
\* unique_ptrs the node holds; a null pointer destroys nothing
RECURSIVE heap_delete(_, _)
heap_delete(h, p) ==
    IF p = heap_nullptr THEN h
    ELSE CASE h[p].tag = "var" -> [h EXCEPT ![p] = freed]
           [] h[p].tag = "func" ->
                  heap_delete([h EXCEPT ![p] = freed], h[p].m_body)
           [] h[p].tag = "app" ->
                  heap_delete(heap_delete([h EXCEPT ![p] = freed],
                                          h[p].m_rhs),
                              h[p].m_lhs)
           [] h[p].tag = "freed" -> h

RECURSIVE heap_lift(_, _, _, _)

heap_var_lift(h, this, a_lift_amount, a_cutoff) ==
    IF h[this].m_index < a_cutoff THEN heap_v(h, h[this].m_index)
    ELSE heap_v(h, h[this].m_index + a_lift_amount)

heap_func_lift(h, this, a_lift_amount, a_cutoff) ==
    LET l_body == heap_lift(h, h[this].m_body, a_lift_amount, a_cutoff)
    IN  heap_f(l_body.h, l_body.p)

heap_app_lift(h, this, a_lift_amount, a_cutoff) ==
    LET l_lhs == heap_lift(h, h[this].m_lhs, a_lift_amount, a_cutoff)
        l_rhs == heap_lift(l_lhs.h, h[this].m_rhs, a_lift_amount, a_cutoff)
    IN  heap_a(l_rhs.h, l_lhs.p, l_rhs.p)

\* virtual dispatch of expr::lift on the node this points to
heap_lift(h, this, a_lift_amount, a_cutoff) ==
    CASE h[this].tag = "var"  -> heap_var_lift(h, this, a_lift_amount, a_cutoff)
      [] h[this].tag = "func" ->
             heap_func_lift(h, this, a_lift_amount, a_cutoff)
      [] h[this].tag = "app"  -> heap_app_lift(h, this, a_lift_amount, a_cutoff)

\* a clone that hands out the object itself instead of a copy of it
heap_clone_shared(h, this) == [h |-> h, p |-> this]

\* expr::clone
heap_clone(h, this) == heap_lift(h, this, 0, 0)

RECURSIVE heap_substitute(_, _, _, _, _)

heap_var_substitute(h, this, a_lift_amount, a_var_index, a_arg) ==
    IF h[this].m_index > a_var_index THEN heap_v(h, h[this].m_index - 1)
    ELSE IF h[this].m_index < a_var_index THEN heap_clone(h, this)
    ELSE heap_lift(h, a_arg, a_lift_amount, a_var_index)

heap_func_substitute(h, this, a_lift_amount, a_var_index, a_arg) ==
    LET l_body == heap_substitute(h, h[this].m_body, a_lift_amount + 1,
                                  a_var_index, a_arg)
    IN  heap_f(l_body.h, l_body.p)

heap_app_substitute(h, this, a_lift_amount, a_var_index, a_arg) ==
    LET l_lhs == heap_substitute(h, h[this].m_lhs, a_lift_amount,
                                 a_var_index, a_arg)
        l_rhs == heap_substitute(l_lhs.h, h[this].m_rhs, a_lift_amount,
                                 a_var_index, a_arg)
    IN  heap_a(l_rhs.h, l_lhs.p, l_rhs.p)

\* virtual dispatch of expr::substitute on the node this points to
heap_substitute(h, this, a_lift_amount, a_var_index, a_arg) ==
    CASE h[this].tag = "var" ->
             heap_var_substitute(h, this, a_lift_amount, a_var_index, a_arg)
      [] h[this].tag = "func" ->
             heap_func_substitute(h, this, a_lift_amount, a_var_index, a_arg)
      [] h[this].tag = "app" ->
             heap_app_substitute(h, this, a_lift_amount, a_var_index, a_arg)

RECURSIVE heap_reduce_one_step(_, _, _)

heap_var_reduce_one_step(h, this, a_depth) == [h |-> h, p |-> heap_nullptr]

heap_func_reduce_one_step(h, this, a_depth) ==
    LET l_reduced_body == heap_reduce_one_step(h, h[this].m_body, a_depth + 1)
    IN  IF l_reduced_body.p = heap_nullptr THEN l_reduced_body
        ELSE heap_f(l_reduced_body.h, l_reduced_body.p)

heap_app_reduce_one_step(h, this, a_depth) ==
    IF h[h[this].m_lhs].tag = "func"
    THEN heap_substitute(h, h[h[this].m_lhs].m_body, 0, a_depth,
                         h[this].m_rhs)
    ELSE LET l_reduced_lhs == heap_reduce_one_step(h, h[this].m_lhs, a_depth)
         IN  IF l_reduced_lhs.p # heap_nullptr
             THEN LET l_rhs == heap_clone(l_reduced_lhs.h, h[this].m_rhs)
                  IN  heap_a(l_rhs.h, l_reduced_lhs.p, l_rhs.p)
             ELSE LET l_reduced_rhs ==
                          heap_reduce_one_step(l_reduced_lhs.h,
                                               h[this].m_rhs, a_depth)
                  IN  IF l_reduced_rhs.p # heap_nullptr
                      THEN LET l_lhs ==
                                   heap_clone(l_reduced_rhs.h, h[this].m_lhs)
                           IN  heap_a(l_lhs.h, l_lhs.p, l_reduced_rhs.p)
                      ELSE l_reduced_rhs

\* virtual dispatch of expr::reduce_one_step on the node this points to
heap_reduce_one_step(h, this, a_depth) ==
    CASE h[this].tag = "var"  -> heap_var_reduce_one_step(h, this, a_depth)
      [] h[this].tag = "func" -> heap_func_reduce_one_step(h, this, a_depth)
      [] h[this].tag = "app"  -> heap_app_reduce_one_step(h, this, a_depth)

\* the initializer of l_result in expr::normalize: m_expr owns a clone
heap_normalize_init(h, this) ==
    LET l_clone == heap_clone(h, this)
    IN  [h |-> l_clone.h,
         l_result |-> [m_step_excess |-> FALSE, m_size_excess |-> FALSE,
                       m_step_count |-> size_t(0), m_size_peak |-> SIZE_MIN,
                       m_expr |-> l_clone.p]]

\* the loop body of expr::normalize for the candidate l_reduced: a break
\* destroys the candidate, the move assignment to m_expr destroys the term
\* m_expr owned before
heap_normalize_pass(h, r, l_reduced, a_step_limit, a_size_limit) ==
    IF l_reduced = heap_nullptr
    THEN [h |-> h, l_result |-> r, brk |-> TRUE]
    ELSE IF r.m_step_count = a_step_limit
    THEN [h |-> heap_delete(h, l_reduced),
          l_result |-> [r EXCEPT !.m_step_excess = TRUE], brk |-> TRUE]
    ELSE IF less(a_size_limit, size_t(h[l_reduced].m_size))
    THEN [h |-> heap_delete(h, l_reduced),
          l_result |-> [r EXCEPT !.m_size_excess = TRUE], brk |-> TRUE]
    ELSE [h |-> heap_delete(h, r.m_expr),
          l_result |-> [r EXCEPT !.m_step_count = increment(r.m_step_count),
                                 !.m_size_peak =
                                     max(r.m_size_peak, h[l_reduced].m_size),
                                 !.m_expr = l_reduced],
          brk |-> FALSE]

\* one evaluation of the while condition followed by the loop body
heap_normalize_body(h, r, a_step_limit, a_size_limit) ==
    CHOOSE l_pass \in
        {heap_normalize_pass(l_call.h, r, l_call.p, a_step_limit,
                             a_size_limit) :
             l_call \in {heap_reduce_one_step(h, r.m_expr, 0)}} : TRUE

\* construct_program over the unique_ptrs of the helpers and of the main
\* function
RECURSIVE heap_construct_program(_, _, _)
heap_construct_program(h, a_helpers_begin, a_main_fn) ==
    IF a_helpers_begin = <<>>
    THEN heap_clone(h, a_main_fn)
    ELSE LET l_rest == heap_construct_program(h, Tail(a_helpers_begin),
                                              a_main_fn)
             l_func == heap_f(l_rest.h, l_rest.p)
             l_helper == heap_clone(l_func.h, Head(a_helpers_begin))
         IN  heap_a(l_helper.h, l_func.p, l_helper.p)

\* a term built on the heap with the factories, as the callers build their
\* terms
RECURSIVE heap_new(_, _)
heap_new(h, e) ==
    CASE e.tag = "var" -> heap_v(h, e.m_index)
      [] e.tag = "func" ->
             LET l_body == heap_new(h, e.m_body)
             IN  heap_f(l_body.h, l_body.p)
      [] e.tag = "app" ->
             LET l_lhs == heap_new(h, e.m_lhs)
                 l_rhs == heap_new(l_lhs.h, e.m_rhs)
             IN  heap_a(l_rhs.h, l_lhs.p, l_rhs.p)

\* the term a unique_ptr owns, read off the heap; a destroyed node shows as
\* freed
RECURSIVE term_at(_, _)
term_at(h, p) ==
    IF p = heap_nullptr THEN nullptr
    ELSE CASE h[p].tag = "var" ->
                  [tag |-> "var", m_size |-> h[p].m_size,
                   m_index |-> h[p].m_index]
           [] h[p].tag = "func" ->
                  [tag |-> "func", m_size |-> h[p].m_size,
                   m_body |-> term_at(h, h[p].m_body)]
           [] h[p].tag = "app" ->
                  [tag |-> "app", m_size |-> h[p].m_size,
                   m_lhs |-> term_at(h, h[p].m_lhs),
                   m_rhs |-> term_at(h, h[p].m_rhs)]
           [] h[p].tag = "freed" -> freed

\* the positions of the nodes a unique_ptr owns, directly or through the
\* nodes it owns
RECURSIVE nodes_of(_, _)
nodes_of(h, p) ==
    IF p = heap_nullptr THEN {}
    ELSE CASE h[p].tag = "var" -> {p}
           [] h[p].tag = "func" -> {p} \cup nodes_of(h, h[p].m_body)
           [] h[p].tag = "app" ->
                  {p} \cup nodes_of(h, h[p].m_lhs) \cup nodes_of(h, h[p].m_rhs)
           [] h[p].tag = "freed" -> {p}

\* ------------------------------------------------------------------------
\* Input terms
\* ------------------------------------------------------------------------
\* every term with exactly s nodes and variable indices in 0..MaxIndex
RECURSIVE TermsOfSize(_)
TermsOfSize(s) ==
    IF s = 1 THEN {v(i) : i \in 0..MaxIndex}
    ELSE {f(b) : b \in TermsOfSize(s - 1)}
         \cup UNION {{a(l, r) : l \in TermsOfSize(k),
                                r \in TermsOfSize(s - 1 - k)} : k \in 1..(s - 2)}

TermsUpTo(n) == UNION {TermsOfSize(s) : s \in 1..n}

\* redexes (\.b) r over variables, and the terms that put such a redex next
\* to, inside, or under another one
SimpleRedexes == {a(f(b), r) : b \in TermsOfSize(1), r \in TermsOfSize(1)}

CompoundTerms ==
    {a(x, y) : x \in SimpleRedexes, y \in SimpleRedexes}
    \cup {a(f(x), y) : x \in SimpleRedexes, y \in TermsOfSize(1)}
    \cup {a(f(b), x) : b \in TermsOfSize(1), x \in SimpleRedexes}
    \cup {a(y, x) : y \in TermsOfSize(1), x \in SimpleRedexes}
    \cup {a(f(a(x, y)), r) : x \in TermsOfSize(1), y \in TermsOfSize(1),
                             r \in TermsUpTo(MaxArgSize)}
    \cup {a(f(x), y) : x \in SimpleRedexes, y \in SimpleRedexes}
    \cup {f(f(x)) : x \in SimpleRedexes}

\* terms of the unit tests of src/src/lambda.cpp
l_omega == f(a(v(0), v(0)))
Omega == a(l_omega, l_omega)
l_dup3 == f(a(a(v(0), v(0)), v(0)))
Grow == a(l_omega, l_dup3)
TwoRedexes == a(a(f(v(0)), v(5)), a(f(v(1)), v(6)))
OuterFirst == a(f(a(f(v(3)), v(4))), v(2))
LeftFirst == a(a(f(v(0)), v(1)), a(f(v(2)), v(3)))
DropOmega == a(f(v(1)), Omega)

TestTerms == {Omega, Grow, TwoRedexes, OuterFirst, LeftFirst, DropOmega}

\* the combinators of generic_use_case_test
I == f(v(0))
K == f(f(v(0)))
S == f(f(f(a(a(v(0), v(2)), a(v(1), v(2))))))

\* arguments kept and dropped by K: the ones of the unit tests, and terms
\* that bind variables or hold a redex
KeptArgs ==
    {v(0), v(5), v(7), f(v(0)), f(v(5)), a(f(v(0)), v(1)), a(v(1), f(v(0)))}
DroppedArgs == {v(6), v(8), f(v(6)), a(f(v(0)), v(1))}
\* variables the combinators are applied to
CombinatorVars == {v(i) : i \in 0..MaxIndex} \cup {v(10), v(12)}

CombinatorTerms ==
    {a(a(K, x), y) : x \in KeptArgs, y \in DroppedArgs}
    \cup {a(a(a(S, K), K), x) : x \in CombinatorVars}
    \cup {a(a(a(S, I), I), x) : x \in CombinatorVars}

InputTerms ==
    TermsUpTo(MaxTermSize) \cup CompoundTerms \cup TestTerms
        \cup CombinatorTerms

ArgTerms == TermsUpTo(MaxArgSize)

\* helpers and main functions handed to construct_program: variables,
\* abstractions of a variable, a helper without normal form, and the Church
\* numeral helpers of generic_use_case_test written for a two-helper tower
\* the lambdas l and g of the use case: a local of a helper added when the
\* list holds a_helpers_size helpers, and a global
l(a_helpers_size, a_local_index) == v(a_helpers_size + a_local_index)
g(a_global_index) == v(a_global_index)

\* the helpers of the use case, each as it is written when a_helpers_size
\* helpers precede it, and the main term SUCC ZERO for ZERO at that place
\* followed by SUCC
ChurchTrue(a_helpers_size) == f(f(l(a_helpers_size, 0)))
ChurchFalse(a_helpers_size) == f(f(l(a_helpers_size, 1)))
ZERO(a_helpers_size) == f(f(l(a_helpers_size, 1)))
SUCC(a_helpers_size) ==
    f(f(f(a(l(a_helpers_size, 1),
            a(a(l(a_helpers_size, 0), l(a_helpers_size, 1)),
              l(a_helpers_size, 2))))))
ONE(a_helpers_size) == a(g(a_helpers_size + 1), g(a_helpers_size))

\* the helper list of the use case when ONE is normalized, and the list of
\* ZERO and SUCC alone
UseCaseHelpers == <<ChurchTrue(0), ChurchFalse(1), ZERO(2), SUCC(3)>>
ChurchHelpers == <<ZERO(0), SUCC(1)>>

HelperTerms == {v(0), v(MaxIndex), f(v(1)), f(v(MaxIndex))}

RECURSIVE ListsOfLength(_)
ListsOfLength(n) ==
    IF n = 0 THEN {<<>>}
    ELSE {<<h>> \o rest : h \in HelperTerms, rest \in ListsOfLength(n - 1)}

\* a helper list whose first helper holds a redex
RedexHelpers == <<a(f(v(0)), v(1)), f(v(1))>>

\* a helper list whose first helper has no normal form
OmegaHelpers == <<Omega, f(v(1))>>

HelperLists ==
    UNION {ListsOfLength(n) : n \in 0..MaxHelpers}
        \cup {ChurchHelpers, UseCaseHelpers, RedexHelpers, OmegaHelpers}

MainTerms ==
    {v(i) : i \in 0..MaxIndex}
        \cup {f(v(0)), ONE(0), ONE(2), a(v(MaxIndex), f(v(MaxIndex)))}

StepLimits == {size_t(n) : n \in 0..MaxStepLimit} \cup {SIZE_MAX}
\* the size of Omega and the size limits the unit tests put on Grow
TestSizeLimits == {size(Omega), 10, 13, 15}
SizeLimits ==
    {size_t(n) : n \in 0..MaxSizeLimit \cup TestSizeLimits} \cup {SIZE_MAX}

\* the terms built on the heap: every small term, and terms whose reduction
\* takes each branch of app::reduce_one_step
OwnedTerms ==
    TermsUpTo(MaxOwnedSize)
        \cup {a(f(a(v(0), v(1))), f(v(1))),
              a(a(f(v(0)), v(1)), v(2)),
              a(v(1), a(f(v(0)), v(2))),
              f(a(f(v(1)), v(0))),
              Omega}

\* the arguments built on the heap for substitute
OwnedArgs == {v(1), f(a(v(0), v(1)))}

\* the helper lists and main functions built on the heap
OwnedHelpers == {v(0), f(v(1)), a(f(v(0)), v(1))}

RECURSIVE OwnedListsOfLength(_)
OwnedListsOfLength(n) ==
    IF n = 0 THEN {<<>>}
    ELSE {<<e>> \o rest : e \in OwnedHelpers,
                          rest \in OwnedListsOfLength(n - 1)}

OwnedHelperLists == UNION {OwnedListsOfLength(n) : n \in 0..MaxHelpers}

OwnedMainTerms == {v(0), f(v(0)), a(v(1), v(0))}

\* the terms of a list built on the heap one after the other
RECURSIVE heap_new_list(_, _)
heap_new_list(h, terms) ==
    IF terms = <<>> THEN [h |-> h, p |-> <<>>]
    ELSE LET l_head == heap_new(h, Head(terms))
             l_tail == heap_new_list(l_head.h, Tail(terms))
         IN  [h |-> l_tail.h, p |-> <<l_head.p>> \o l_tail.p]

\* ------------------------------------------------------------------------
\* State
\* ------------------------------------------------------------------------
VARIABLES
    l_helpers,      \* the helper list handed to construct_program
    l_main,         \* the main function handed to construct_program, null
                    \* when the term is not built by construct_program
    this_expr,      \* the term the member function is called on: an input
                    \* term, or the program construct_program returned
    op,             \* the member function called: "none" before the call
    pc,             \* "build": construct_program not yet called, "call":
                    \* member function not yet called, "loop": inside
                    \* normalize's while loop, "return": the call has
                    \* returned
    a_lift_amount,  \* argument of lift / substitute
    a_cutoff,       \* argument of lift
    a_var_index,    \* argument of substitute
    a_arg,          \* argument of substitute
    a_depth,        \* argument of reduce_one_step
    a_step_limit,   \* argument of normalize
    a_size_limit,   \* argument of normalize
    l_ret,          \* the unique_ptr returned by lift / substitute /
                    \* reduce_one_step
    l_result,       \* normalize's local l_result, returned at the end
    heap,           \* the nodes allocated so far, when the terms are
                    \* followed as objects
    heap_in,        \* the unique_ptrs the caller holds: the term the
                    \* member function is called on, the argument of
                    \* substitute, the helpers and the main function
    was,            \* the terms those unique_ptrs owned when they were made
    heap_call,      \* the member function called and its arguments
    heap_ret,       \* the unique_ptr returned by lift / substitute /
                    \* reduce_one_step / clone
    heap_result,    \* normalize's local l_result, m_expr a unique_ptr
    heap_pc         \* "idle": the terms are not followed as objects;
                    \* "build", "call", "loop", "return" as pc;
                    \* "destroyed": the returned object has been destroyed

value_vars ==
    <<l_helpers, l_main, this_expr, op, pc, a_lift_amount, a_cutoff,
      a_var_index, a_arg, a_depth, a_step_limit, a_size_limit, l_ret,
      l_result>>

heap_vars ==
    <<heap, heap_in, was, heap_call, heap_ret, heap_result, heap_pc>>

vars == <<value_vars, heap_vars>>

args == <<a_lift_amount, a_cutoff, a_var_index, a_arg, a_depth,
          a_step_limit, a_size_limit>>

\* no unique_ptr held, no term recorded, no call made
NoInputs ==
    [this |-> heap_nullptr, arg |-> heap_nullptr, helpers |-> <<>>,
     main |-> heap_nullptr]

NoTerms ==
    [this |-> nullptr, arg |-> nullptr, helpers |-> <<>>, main |-> nullptr]

NoCall ==
    [op |-> "none", a_lift_amount |-> 0, a_cutoff |-> 0, a_var_index |-> 0,
     a_depth |-> 0, a_step_limit |-> size_t(0), a_size_limit |-> size_t(0)]

Init ==
    /\ \/ /\ this_expr \in InputTerms
          /\ l_helpers = <<>>
          /\ l_main = nullptr
          /\ pc = "call"
       \/ /\ this_expr = nullptr
          /\ l_helpers \in HelperLists
          /\ l_main \in MainTerms
          /\ pc = "build"
    /\ op = "none"
    /\ a_lift_amount = 0
    /\ a_cutoff = 0
    /\ a_var_index = 0
    /\ a_arg = nullptr
    /\ a_depth = 0
    /\ a_step_limit = size_t(0)
    /\ a_size_limit = size_t(0)
    /\ l_ret = nullptr
    /\ l_result = nullptr
    /\ heap = <<>>
    /\ heap_in = NoInputs
    /\ was = NoTerms
    /\ heap_call = NoCall
    /\ heap_ret = heap_nullptr
    /\ heap_result = nullptr
    /\ heap_pc = "idle"

\* this_expr = construct_program(l_helpers.begin(), l_helpers.end(), l_main)
ConstructProgram ==
    /\ pc = "build"
    /\ this_expr' = construct_program(l_helpers, l_main)
    /\ pc' = "call"
    /\ UNCHANGED <<l_helpers, l_main, op, args, l_ret, l_result>>
    /\ UNCHANGED heap_vars

\* this_expr->lift(amount, cutoff)
Lift ==
    /\ pc = "call"
    /\ size(this_expr) <= MaxTermSize
    /\ \E amount \in 0..MaxLift, cutoff \in 0..(MaxIndex + 1) :
          /\ a_lift_amount' = amount
          /\ a_cutoff' = cutoff
          /\ l_ret' = lift(this_expr, amount, cutoff)
    /\ op' = "lift"
    /\ pc' = "return"
    /\ UNCHANGED <<l_helpers, l_main, this_expr, a_var_index, a_arg, a_depth,
                   a_step_limit, a_size_limit, l_result>>
    /\ UNCHANGED heap_vars

\* this_expr->substitute(amount, index, arg)
Substitute ==
    /\ pc = "call"
    /\ size(this_expr) <= MaxArgSize + 2
    /\ \E amount \in 0..MaxLift, index \in 0..(MaxIndex + 1),
          arg \in ArgTerms :
          /\ a_lift_amount' = amount
          /\ a_var_index' = index
          /\ a_arg' = arg
          /\ l_ret' = substitute(this_expr, amount, index, arg)
    /\ op' = "substitute"
    /\ pc' = "return"
    /\ UNCHANGED <<l_helpers, l_main, this_expr, a_cutoff, a_depth,
                   a_step_limit, a_size_limit, l_result>>
    /\ UNCHANGED heap_vars

\* this_expr->reduce_one_step(depth)
ReduceOneStep ==
    /\ pc = "call"
    /\ \E depth \in 0..MaxLift :
          /\ a_depth' = depth
          /\ l_ret' = reduce_one_step(this_expr, depth)
    /\ op' = "reduce_one_step"
    /\ pc' = "return"
    /\ UNCHANGED <<l_helpers, l_main, this_expr, a_lift_amount, a_cutoff,
                   a_var_index, a_arg, a_step_limit, a_size_limit, l_result>>
    /\ UNCHANGED heap_vars

\* this_expr->normalize(step_limit, size_limit): entry, up to the while loop
NormalizeEnter ==
    /\ pc = "call"
    /\ \E step_limit \in StepLimits, size_limit \in SizeLimits :
          \* a program is normalized with the default limits, as
          \* generic_use_case_test does
          /\ l_main # nullptr
             => step_limit = SIZE_MAX /\ size_limit = SIZE_MAX
          \* the growing term is normalized with a limit, as the unit tests
          \* do: without one the call does not return
          /\ this_expr = Grow
             => step_limit # SIZE_MAX \/ size_limit # SIZE_MAX
          \* the size limits of the unit tests go with the terms of the
          \* unit tests
          /\ this_expr \notin TestTerms
             => \/ size_limit = SIZE_MAX
                \/ less_equal(size_limit, size_t(MaxSizeLimit))
          /\ a_step_limit' = step_limit
          /\ a_size_limit' = size_limit
    /\ l_result' = normalize_init(this_expr)
    /\ op' = "normalize"
    /\ pc' = "loop"
    /\ UNCHANGED <<l_helpers, l_main, this_expr, a_lift_amount, a_cutoff,
                   a_var_index, a_arg, a_depth, l_ret>>
    /\ UNCHANGED heap_vars

\* one pass of normalize's while loop: the condition and, if it holds, the
\* body; the function returns when the loop is left
NormalizeLoop ==
    /\ pc = "loop"
    /\ value(l_result.m_step_count) < MaxSteps
    /\ LET l_pass == normalize_body(l_result, a_step_limit, a_size_limit)
       IN  /\ l_result' = l_pass.l_result
           /\ pc' = IF l_pass.brk THEN "return" ELSE "loop"
    /\ UNCHANGED <<l_helpers, l_main, this_expr, op, args, l_ret>>
    /\ UNCHANGED heap_vars

Next ==
    \/ ConstructProgram
    \/ Lift
    \/ Substitute
    \/ ReduceOneStep
    \/ NormalizeEnter
    \/ NormalizeLoop

Spec == Init /\ [][Next]_vars

\* normalize always gets to run its loop
FairSpec == Spec /\ WF_vars(NormalizeLoop)

\* ------------------------------------------------------------------------
\* The calls on owned nodes
\* ------------------------------------------------------------------------
\* the caller builds its terms with the factories: either the term a member
\* function is called on and an argument for substitute, or the helpers and
\* the main function of a program
HeapInit ==
    /\ this_expr = nullptr
    /\ l_helpers = <<>>
    /\ l_main = nullptr
    /\ op = "none"
    /\ pc = "idle"
    /\ a_lift_amount = 0
    /\ a_cutoff = 0
    /\ a_var_index = 0
    /\ a_arg = nullptr
    /\ a_depth = 0
    /\ a_step_limit = size_t(0)
    /\ a_size_limit = size_t(0)
    /\ l_ret = nullptr
    /\ l_result = nullptr
    /\ \/ \E e \in OwnedTerms, arg \in OwnedArgs :
             LET l_this == heap_new(<<>>, e)
                 l_arg == heap_new(l_this.h, arg)
             IN  /\ heap = l_arg.h
                 /\ heap_in = [NoInputs EXCEPT !.this = l_this.p,
                                               !.arg = l_arg.p]
                 /\ was = [NoTerms EXCEPT !.this = e, !.arg = arg]
                 /\ heap_pc = "call"
       \/ \E helpers \in OwnedHelperLists, main \in OwnedMainTerms :
             LET l_list == heap_new_list(<<>>, helpers)
                 l_fn == heap_new(l_list.h, main)
             IN  /\ heap = l_fn.h
                 /\ heap_in = [NoInputs EXCEPT !.helpers = l_list.p,
                                               !.main = l_fn.p]
                 /\ was = [NoTerms EXCEPT !.helpers = helpers, !.main = main]
                 /\ heap_pc = "build"
    /\ heap_call = NoCall
    /\ heap_ret = heap_nullptr
    /\ heap_result = nullptr

\* construct_program(helpers.begin(), helpers.end(), main): the caller keeps
\* the program and calls the member functions on it
HeapConstructProgram ==
    /\ heap_pc = "build"
    /\ LET l_call == heap_construct_program(heap, heap_in.helpers,
                                            heap_in.main)
       IN  /\ heap' = l_call.h
           /\ heap_in' = [heap_in EXCEPT !.this = l_call.p]
    /\ was' = [was EXCEPT !.this = construct_program(was.helpers, was.main)]
    /\ heap_pc' = "call"
    /\ UNCHANGED <<heap_call, heap_ret, heap_result, value_vars>>

\* this->lift(amount, cutoff)
HeapLift ==
    /\ heap_pc = "call"
    /\ \E amount \in 0..MaxLift, cutoff \in 0..(MaxIndex + 1) :
          LET l_call == heap_lift(heap, heap_in.this, amount, cutoff)
          IN  /\ heap' = l_call.h
              /\ heap_ret' = l_call.p
              /\ heap_call' = [NoCall EXCEPT !.op = "lift",
                                             !.a_lift_amount = amount,
                                             !.a_cutoff = cutoff]
    /\ heap_pc' = "return"
    /\ UNCHANGED <<heap_in, was, heap_result, value_vars>>

\* this->substitute(amount, index, arg)
HeapSubstitute ==
    /\ heap_pc = "call"
    /\ heap_in.arg # heap_nullptr
    /\ \E amount \in 0..MaxLift, index \in 0..(MaxIndex + 1) :
          LET l_call == heap_substitute(heap, heap_in.this, amount, index,
                                        heap_in.arg)
          IN  /\ heap' = l_call.h
              /\ heap_ret' = l_call.p
              /\ heap_call' = [NoCall EXCEPT !.op = "substitute",
                                             !.a_lift_amount = amount,
                                             !.a_var_index = index]
    /\ heap_pc' = "return"
    /\ UNCHANGED <<heap_in, was, heap_result, value_vars>>

\* this->reduce_one_step(depth)
HeapReduceOneStep ==
    /\ heap_pc = "call"
    /\ \E depth \in 0..MaxLift :
          LET l_call == heap_reduce_one_step(heap, heap_in.this, depth)
          IN  /\ heap' = l_call.h
              /\ heap_ret' = l_call.p
              /\ heap_call' = [NoCall EXCEPT !.op = "reduce_one_step",
                                             !.a_depth = depth]
    /\ heap_pc' = "return"
    /\ UNCHANGED <<heap_in, was, heap_result, value_vars>>

\* this->clone()
HeapClone ==
    /\ heap_pc = "call"
    /\ LET l_call == heap_clone(heap, heap_in.this)
       IN  /\ heap' = l_call.h
           /\ heap_ret' = l_call.p
    /\ heap_call' = [NoCall EXCEPT !.op = "clone"]
    /\ heap_pc' = "return"
    /\ UNCHANGED <<heap_in, was, heap_result, value_vars>>

\* this->normalize(step_limit, size_limit): entry, up to the while loop; the
\* step limit is finite, so that the call returns
HeapNormalizeEnter ==
    /\ heap_pc = "call"
    /\ \E step_limit \in StepLimits \ {SIZE_MAX},
          size_limit \in {size_t(MaxSizeLimit), SIZE_MAX} :
          heap_call' = [NoCall EXCEPT !.op = "normalize",
                                      !.a_step_limit = step_limit,
                                      !.a_size_limit = size_limit]
    /\ LET l_init == heap_normalize_init(heap, heap_in.this)
       IN  /\ heap' = l_init.h
           /\ heap_result' = l_init.l_result
    /\ heap_pc' = "loop"
    /\ UNCHANGED <<heap_in, was, heap_ret, value_vars>>

\* one pass of normalize's while loop
HeapNormalizeLoop ==
    /\ heap_pc = "loop"
    /\ LET l_pass == heap_normalize_body(heap, heap_result,
                                         heap_call.a_step_limit,
                                         heap_call.a_size_limit)
       IN  /\ heap' = l_pass.h
           /\ heap_result' = l_pass.l_result
           /\ heap_pc' = IF l_pass.brk THEN "return" ELSE "loop"
    /\ UNCHANGED <<heap_in, was, heap_call, heap_ret, value_vars>>

\* the unique_ptr the call returned, or the normalize_result, goes out of
\* scope or is assigned to: the term it owns is destroyed
HeapDestroy ==
    /\ heap_pc = "return"
    /\ IF heap_call.op = "normalize"
       THEN /\ heap' = heap_delete(heap, heap_result.m_expr)
            /\ heap_result' = [heap_result EXCEPT !.m_expr = heap_nullptr]
            /\ UNCHANGED heap_ret
       ELSE /\ heap' = heap_delete(heap, heap_ret)
            /\ heap_ret' = heap_nullptr
            /\ UNCHANGED heap_result
    /\ heap_pc' = "destroyed"
    /\ UNCHANGED <<heap_in, was, heap_call, value_vars>>

HeapNext ==
    \/ HeapConstructProgram
    \/ HeapLift
    \/ HeapSubstitute
    \/ HeapReduceOneStep
    \/ HeapClone
    \/ HeapNormalizeEnter
    \/ HeapNormalizeLoop
    \/ HeapDestroy

HeapSpec == HeapInit /\ [][HeapNext]_vars

TypeOK ==
    /\ op \in {"none", "lift", "substitute", "reduce_one_step", "normalize"}
    /\ pc \in {"build", "call", "loop", "return"}

\* ------------------------------------------------------------------------
\* Vocabulary of the properties
\* ------------------------------------------------------------------------
\* normalize has returned
NormalizeReturned == op = "normalize" /\ pc = "return"

\* the term contains an application whose left side is an abstraction
RECURSIVE HasRedex(_)
HasRedex(e) ==
    CASE e.tag = "var"  -> FALSE
      [] e.tag = "func" -> HasRedex(e.m_body)
      [] e.tag = "app"  -> \/ e.m_lhs.tag = "func"
                           \/ HasRedex(e.m_lhs)
                           \/ HasRedex(e.m_rhs)

\* the number of applications whose left side is an abstraction
RECURSIVE RedexCount(_)
RedexCount(e) ==
    CASE e.tag = "var"  -> 0
      [] e.tag = "func" -> RedexCount(e.m_body)
      [] e.tag = "app"  -> (IF e.m_lhs.tag = "func" THEN 1 ELSE 0)
                           + RedexCount(e.m_lhs) + RedexCount(e.m_rhs)

\* the number of occurrences of Var(i)
RECURSIVE Occurrences(_, _)
Occurrences(e, i) ==
    CASE e.tag = "var"  -> IF e.m_index = i THEN 1 ELSE 0
      [] e.tag = "func" -> Occurrences(e.m_body, i)
      [] e.tag = "app"  -> Occurrences(e.m_lhs, i) + Occurrences(e.m_rhs, i)

\* the variable indices that occur in the term
RECURSIVE Indices(_)
Indices(e) ==
    CASE e.tag = "var"  -> {e.m_index}
      [] e.tag = "func" -> Indices(e.m_body)
      [] e.tag = "app"  -> Indices(e.m_lhs) \cup Indices(e.m_rhs)

\* the variable indices that occur below at least one abstraction
RECURSIVE IndicesUnderFunc(_)
IndicesUnderFunc(e) ==
    CASE e.tag = "var"  -> {}
      [] e.tag = "func" -> Indices(e.m_body)
      [] e.tag = "app"  -> IndicesUnderFunc(e.m_lhs)
                           \cup IndicesUnderFunc(e.m_rhs)

\* the terms obtained from e, which lies below depth abstractions, by
\* contracting one redex of e, whichever it is
RECURSIVE Contractions(_, _)
Contractions(e, depth) ==
    CASE e.tag = "var"  -> {}
      [] e.tag = "func" -> {f(b) : b \in Contractions(e.m_body, depth + 1)}
      [] e.tag = "app"  ->
            (IF e.m_lhs.tag = "func"
             THEN {substitute(e.m_lhs.m_body, 0, depth, e.m_rhs)}
             ELSE {})
            \cup {a(r, e.m_rhs) : r \in Contractions(e.m_lhs, depth)}
            \cup {a(e.m_lhs, r) : r \in Contractions(e.m_rhs, depth)}

\* the terms of size at most MaxReductSize reached from the terms of S by at
\* most n contractions of arbitrarily chosen redexes
RECURSIVE Reducts(_, _)
Reducts(terms, n) ==
    LET l_more == terms \cup {r \in UNION {Contractions(x, 0) : x \in terms} :
                                size(r) <= MaxReductSize}
    IN  IF n = 0 \/ l_more = terms THEN terms ELSE Reducts(l_more, n - 1)

\* the beta-normal forms that some reduction sequence from e reaches
NormalForms(e) == {r \in Reducts({e}, MaxSteps) : ~HasRedex(r)}

\* normalize was called without limits
Unlimited == a_step_limit = SIZE_MAX /\ a_size_limit = SIZE_MAX

\* member function fn has returned
Returned(fn) == op = fn /\ pc = "return"

\* r has the shape of e, node sizes included, and its variables are those of
\* e with every index >= cutoff raised by amount
RECURSIVE IsLifted(_, _, _, _)
IsLifted(e, r, amount, cutoff) ==
    /\ r.tag = e.tag
    /\ r.m_size = e.m_size
    /\ CASE e.tag = "var"  ->
              r.m_index = IF e.m_index >= cutoff THEN e.m_index + amount
                          ELSE e.m_index
         [] e.tag = "func" -> IsLifted(e.m_body, r.m_body, amount, cutoff)
         [] e.tag = "app"  -> /\ IsLifted(e.m_lhs, r.m_lhs, amount, cutoff)
                              /\ IsLifted(e.m_rhs, r.m_rhs, amount, cutoff)

\* r follows e down to every variable other than Var(index): abstractions
\* and applications of e are abstractions and applications of r, a variable
\* above index is one lower in r and a variable below index is the same
RECURSIVE OtherVariablesKept(_, _, _)
OtherVariablesKept(e, r, index) ==
    CASE e.tag = "var"  ->
            IF e.m_index > index THEN r = v(e.m_index - 1)
            ELSE IF e.m_index < index THEN r = v(e.m_index)
            ELSE TRUE
      [] e.tag = "func" -> /\ r.tag = "func"
                           /\ OtherVariablesKept(e.m_body, r.m_body, index)
      [] e.tag = "app"  -> /\ r.tag = "app"
                           /\ OtherVariablesKept(e.m_lhs, r.m_lhs, index)
                           /\ OtherVariablesKept(e.m_rhs, r.m_rhs, index)

\* r follows e down to every occurrence of Var(index), and holds there the
\* term arg lifted, with cutoff index, by amount plus the number of
\* abstractions of e above the occurrence
RECURSIVE OccurrencesReplaced(_, _, _, _, _)
OccurrencesReplaced(e, r, amount, index, arg) ==
    CASE e.tag = "var"  ->
            e.m_index = index => IsLifted(arg, r, amount, index)
      [] e.tag = "func" ->
            /\ r.tag = "func"
            /\ OccurrencesReplaced(e.m_body, r.m_body, amount + 1, index, arg)
      [] e.tag = "app"  ->
            /\ r.tag = "app"
            /\ OccurrencesReplaced(e.m_lhs, r.m_lhs, amount, index, arg)
            /\ OccurrencesReplaced(e.m_rhs, r.m_rhs, amount, index, arg)

\* the number of abstractions at the top of e, one inside the other
RECURSIVE LeadingFuncs(_)
LeadingFuncs(e) ==
    IF e.tag = "func" THEN 1 + LeadingFuncs(e.m_body) ELSE 0

\* e without its n outermost abstractions
RECURSIVE Peel(_, _)
Peel(e, n) == IF n = 0 THEN e ELSE Peel(e.m_body, n - 1)

\* e is a redex below LeadingFuncs(e) abstractions and nothing else
RedexUnderFuncs(e) ==
    LET l_core == Peel(e, LeadingFuncs(e))
    IN  l_core.tag = "app" /\ l_core.m_lhs.tag = "func"

\* r is the term body in which the binder addressed by Var(level) is bound to
\* arg: the occurrences of Var(level) hold arg, lifted across the
\* abstractions of body above them, and the other variables are adjusted to
\* the loss of one binder
BinderBound(body, r, level, arg) ==
    /\ OtherVariablesKept(body, r, level)
    /\ OccurrencesReplaced(body, r, 0, level, arg)

\* the term after n leftmost-outermost steps from e
RECURSIVE NthReduct(_, _)
NthReduct(e, n) ==
    IF n = 0 THEN e ELSE NthReduct(reduce_one_step(e, 0), n - 1)

\* the sizes of the terms the first n steps from e produce
CommittedSizes(e, n) == {size(NthReduct(e, k)) : k \in 1..n}

\* the largest number of a non-empty finite set of numbers
SetMax(sizes) == CHOOSE x \in sizes : \A y \in sizes : y <= x

\* the size cached in every node of e is the number of nodes below and
\* including it
RECURSIVE SizesExact(_)
SizesExact(e) ==
    CASE e.tag = "var"  -> e.m_size = 1
      [] e.tag = "func" -> /\ e.m_size = 1 + e.m_body.m_size
                           /\ SizesExact(e.m_body)
      [] e.tag = "app"  -> /\ e.m_size = 1 + e.m_lhs.m_size + e.m_rhs.m_size
                           /\ SizesExact(e.m_lhs)
                           /\ SizesExact(e.m_rhs)

\* ------------------------------------------------------------------------
\* Properties of normalize
\* ------------------------------------------------------------------------
\* C1: a pass of the loop that finds a reduction while the number of
\* committed steps equals the step limit leaves the loop with
\* m_step_excess set, m_step_count still equal to the limit and an
\* expression structurally equal to the one held before the pass.
C1_StepLimitStops ==
    [][(/\ pc = "loop"
        /\ reduce_one_step(l_result.m_expr, 0) # nullptr
        /\ l_result.m_step_count = a_step_limit)
       => (/\ pc' = "return"
           /\ l_result'.m_step_excess
           /\ l_result'.m_step_count = a_step_limit
           /\ equals(l_result'.m_expr, l_result.m_expr)
           /\ l_result'.m_expr = l_result.m_expr)]_vars

\* normalize returned on the step limit after committing reductions
C1_Witness ==
    /\ NormalizeReturned
    /\ l_result.m_step_excess
    /\ a_step_limit # size_t(0)
    /\ l_result.m_step_count = a_step_limit

\* C2: a pass of the loop below the step limit whose candidate is larger
\* than the size limit leaves the loop with m_size_excess set and with
\* m_step_count, m_size_peak and the expression as before the pass; a
\* candidate whose size equals the size limit is committed and counted.
C2_SizeLimitStops ==
    [][(/\ pc = "loop"
        /\ reduce_one_step(l_result.m_expr, 0) # nullptr
        /\ less(l_result.m_step_count, a_step_limit))
       => LET l_candidate == reduce_one_step(l_result.m_expr, 0)
          IN  /\ less(a_size_limit, size_t(size(l_candidate)))
                 => /\ pc' = "return"
                    /\ l_result'.m_size_excess
                    /\ l_result'.m_step_count = l_result.m_step_count
                    /\ l_result'.m_size_peak = l_result.m_size_peak
                    /\ equals(l_result'.m_expr, l_result.m_expr)
              /\ size_t(size(l_candidate)) = a_size_limit
                 => /\ pc' = "loop"
                    /\ ~l_result'.m_size_excess
                    /\ l_result'.m_step_count = increment(l_result.m_step_count)
                    /\ equals(l_result'.m_expr, l_candidate)]_vars

\* normalize committed a candidate of exactly the size limit and then
\* returned on a larger one
C2_Witness ==
    /\ NormalizeReturned
    /\ l_result.m_size_excess
    /\ value(l_result.m_step_count) > 0
    /\ size_t(l_result.m_size_peak) = a_size_limit
    /\ size_t(size(l_result.m_expr)) = a_size_limit

\* C3: normalize returns with both excess flags false exactly when the
\* returned expression has no redex, which is exactly when reduce_one_step
\* at depth 0 returns null on it; in particular a run that reaches the
\* normal form with its last allowed step reports no step excess.
C3_FlagsIffNormalForm ==
    NormalizeReturned
    => /\ (~l_result.m_step_excess /\ ~l_result.m_size_excess)
          <=> ~HasRedex(l_result.m_expr)
       /\ ~HasRedex(l_result.m_expr)
          <=> reduce_one_step(l_result.m_expr, 0) = nullptr

\* normalize reached the normal form with exactly a_step_limit steps
C3_Witness ==
    /\ NormalizeReturned
    /\ a_step_limit # size_t(0)
    /\ l_result.m_step_count = a_step_limit
    /\ ~l_result.m_step_excess
    /\ ~l_result.m_size_excess
    /\ ~HasRedex(l_result.m_expr)

\* C4: when some sequence of contractions of arbitrarily chosen redexes
\* takes the term to a beta-normal form, normalize without limits returns,
\* without an excess flag, an expression structurally equal to that normal
\* form.
C4_NormalOrderFindsNormalForm ==
    (/\ op = "normalize"
     /\ pc = "loop"
     /\ Unlimited
     /\ NormalForms(this_expr) # {})
    ~> (/\ NormalizeReturned
        /\ ~l_result.m_step_excess
        /\ ~l_result.m_size_excess
        /\ \A nf \in NormalForms(this_expr) : equals(l_result.m_expr, nf))

\* normalize without limits returned the normal form of a term that offers
\* several redexes, one of which can be contracted for ever
C4_Witness ==
    /\ NormalizeReturned
    /\ Unlimited
    /\ Cardinality(Contractions(this_expr, 0)) >= 2
    /\ this_expr \in Contractions(this_expr, 0)
    /\ value(l_result.m_step_count) >= 1
    /\ l_result.m_expr \in NormalForms(this_expr)

\* C5: normalizing the omega term with a finite step limit N and a size
\* limit of at least 9 keeps an expression structurally equal to omega in
\* every pass and returns m_step_count = N, m_step_excess = true and
\* m_size_excess = false.
C5_OmegaHitsStepLimit ==
    (/\ op = "normalize"
     /\ equals(this_expr, Omega)
     /\ a_step_limit # SIZE_MAX
     /\ less_equal(size_t(9), a_size_limit))
    => /\ equals(l_result.m_expr, Omega)
       /\ less_equal(l_result.m_step_count, a_step_limit)
       /\ pc = "return"
          => /\ l_result.m_step_count = a_step_limit
             /\ l_result.m_step_excess
             /\ ~l_result.m_size_excess

\* normalize of omega returned after the largest finite step limit, under a
\* size limit of exactly 9
C5_Witness ==
    /\ NormalizeReturned
    /\ equals(this_expr, Omega)
    /\ a_step_limit = size_t(MaxStepLimit)
    /\ a_size_limit = size_t(9)
    /\ value(l_result.m_step_count) = MaxStepLimit

\* ------------------------------------------------------------------------
\* Properties of reduce_one_step
\* ------------------------------------------------------------------------
\* C6: reduce_one_step on an application whose left side is an abstraction
\* returns substitute(lhs.body, 0, depth, rhs), whatever redexes the body
\* and the argument hold: each redex of the body and each redex of every
\* copy of the argument is still there in the result.
C6_OuterRedexContracted ==
    (/\ Returned("reduce_one_step")
     /\ this_expr.tag = "app"
     /\ this_expr.m_lhs.tag = "func")
    => LET l_body == this_expr.m_lhs.m_body
       IN  /\ l_ret # nullptr
           /\ equals(l_ret, substitute(l_body, 0, a_depth, this_expr.m_rhs))
           /\ RedexCount(l_ret) >=
                  RedexCount(l_body)
                  + Occurrences(l_body, a_depth) * RedexCount(this_expr.m_rhs)

\* reduce_one_step returned from a redex whose body and whose argument both
\* hold a redex
C6_Witness ==
    /\ Returned("reduce_one_step")
    /\ this_expr.tag = "app"
    /\ this_expr.m_lhs.tag = "func"
    /\ HasRedex(this_expr.m_lhs.m_body)
    /\ HasRedex(this_expr.m_rhs)
    /\ Occurrences(this_expr.m_lhs.m_body, a_depth) > 0
    /\ RedexCount(l_ret) >= 2

\* C7: reduce_one_step on an application whose left side is not an
\* abstraction: when the left side reduces, the result is the application of
\* the reduced left side to a right side structurally equal to the old one;
\* otherwise, when the right side reduces, it is the application of a left
\* side structurally equal to the old one to the reduced right side;
\* otherwise it is null.
C7_LeftBeforeRight ==
    (/\ Returned("reduce_one_step")
     /\ this_expr.tag = "app"
     /\ this_expr.m_lhs.tag # "func")
    => LET l_lhs == reduce_one_step(this_expr.m_lhs, a_depth)
           l_rhs == reduce_one_step(this_expr.m_rhs, a_depth)
       IN  IF l_lhs # nullptr
           THEN /\ l_ret.tag = "app"
                /\ equals(l_ret.m_lhs, l_lhs)
                /\ equals(l_ret.m_rhs, this_expr.m_rhs)
                /\ RedexCount(l_ret.m_rhs) = RedexCount(this_expr.m_rhs)
           ELSE IF l_rhs # nullptr
           THEN /\ l_ret.tag = "app"
                /\ equals(l_ret.m_lhs, this_expr.m_lhs)
                /\ equals(l_ret.m_rhs, l_rhs)
           ELSE l_ret = nullptr

\* reduce_one_step reduced the left side of an application whose right side
\* holds a redex too
C7_Witness ==
    /\ Returned("reduce_one_step")
    /\ this_expr.tag = "app"
    /\ this_expr.m_lhs.tag # "func"
    /\ HasRedex(this_expr.m_lhs)
    /\ HasRedex(this_expr.m_rhs)
    /\ l_ret.tag = "app"
    /\ equals(l_ret.m_rhs, this_expr.m_rhs)

\* ------------------------------------------------------------------------
\* Properties of substitute and lift
\* ------------------------------------------------------------------------
\* C8: in the result of substitute every variable of the term other than
\* Var(a_var_index) stands at the same place, below the same abstractions
\* and applications, one lower when its index is above a_var_index and
\* unchanged when it is below, whatever a_lift_amount and a_arg are.
C8_OtherVariables ==
    Returned("substitute")
    => OtherVariablesKept(this_expr, l_ret, a_var_index)

\* substitute returned, with a positive lift amount, from a term that holds
\* below an abstraction a variable above and a variable below a_var_index
C8_Witness ==
    /\ Returned("substitute")
    /\ a_lift_amount > 0
    /\ \E i \in IndicesUnderFunc(this_expr) : i > a_var_index
    /\ \E i \in IndicesUnderFunc(this_expr) : i < a_var_index
    /\ \E i \in Indices(a_arg) : i >= a_var_index

\* C9: in the result of substitute every occurrence of Var(a_var_index)
\* that lies below k abstractions of the term is replaced by a_arg with its
\* indices >= a_var_index raised by a_lift_amount + k and the others kept;
\* applications on the way do not change the amount.
C9_OccurrencesLifted ==
    Returned("substitute")
    => OccurrencesReplaced(this_expr, l_ret, a_lift_amount, a_var_index, a_arg)

\* substitute replaced an occurrence below an abstraction by an argument
\* that holds a variable the lift raises
C9_Witness ==
    /\ Returned("substitute")
    /\ a_var_index \in IndicesUnderFunc(this_expr)
    /\ \E i \in Indices(a_arg) : i >= a_var_index
    /\ \E i \in Indices(l_ret) : i > a_var_index + a_lift_amount

\* C10: lift returns a term of the shape of the one it is called on in
\* which every variable with index >= a_cutoff is raised by a_lift_amount
\* and every other variable is unchanged, with the one cutoff at every depth.
C10_LiftPointwise ==
    Returned("lift")
    => IsLifted(this_expr, l_ret, a_lift_amount, a_cutoff)

\* lift returned, with a positive amount, from a term that holds the
\* variable Var(a_cutoff) below an abstraction and a variable below the cutoff
C10_Witness ==
    /\ Returned("lift")
    /\ a_lift_amount > 0
    /\ a_cutoff \in IndicesUnderFunc(this_expr)
    /\ \E i \in Indices(this_expr) : i < a_cutoff
    /\ \E i \in Indices(l_ret) : i >= a_cutoff + a_lift_amount

\* ------------------------------------------------------------------------
\* Binder levels
\* ------------------------------------------------------------------------
\* C11 as stated: when reduce_one_step contracts a redex (\.body) arg that
\* lies below d abstractions of the term, the binder of the redex's
\* abstraction is addressed in body by the index a_depth + d + 1, the number
\* of abstractions between the body and the root with that abstraction
\* itself counted.
C11_LevelCountsOwnFunc ==
    (Returned("reduce_one_step") /\ RedexUnderFuncs(this_expr))
    => LET d == LeadingFuncs(this_expr)
           l_redex == Peel(this_expr, d)
       IN  /\ LeadingFuncs(l_ret) >= d
           /\ BinderBound(l_redex.m_lhs.m_body, Peel(l_ret, d),
                          a_depth + d + 1, l_redex.m_rhs)

\* C11 amended: the binder of the redex's abstraction is addressed in body
\* by the index a_depth + d, the number of abstractions that enclose that
\* abstraction, itself not counted.
C11_LevelCountsEnclosingFuncs ==
    (Returned("reduce_one_step") /\ RedexUnderFuncs(this_expr))
    => LET d == LeadingFuncs(this_expr)
           l_redex == Peel(this_expr, d)
       IN  /\ LeadingFuncs(l_ret) >= d
           /\ BinderBound(l_redex.m_lhs.m_body, Peel(l_ret, d),
                          a_depth + d, l_redex.m_rhs)

\* reduce_one_step contracted a redex below an abstraction whose body uses
\* the binder, with an argument that is not that same variable
C11_Witness ==
    /\ Returned("reduce_one_step")
    /\ RedexUnderFuncs(this_expr)
    /\ LeadingFuncs(this_expr) >= 1
    /\ LET d == LeadingFuncs(this_expr)
           l_redex == Peel(this_expr, d)
       IN  /\ Occurrences(l_redex.m_lhs.m_body, a_depth + d) > 0
           /\ ~equals(l_redex.m_rhs, v(a_depth + d))
           /\ equals(Peel(l_ret, d), l_redex.m_rhs)

\* ------------------------------------------------------------------------
\* Size peak, cached sizes, purity
\* ------------------------------------------------------------------------
\* C12: m_size_peak is the minimum of size_t exactly when no step was
\* committed, whatever the size of the term normalize was called on;
\* otherwise it is the largest size among the terms the committed steps
\* produced, the size of the initial term not being one of them.
C12_SizePeak ==
    op = "normalize"
    => /\ l_result.m_size_peak = SIZE_MIN <=> value(l_result.m_step_count) = 0
       /\ value(l_result.m_step_count) > 0
          => l_result.m_size_peak =
                 SetMax(CommittedSizes(this_expr, value(l_result.m_step_count)))

\* normalize returned after several steps with a peak that is neither the
\* size of the initial term, which was larger, nor of the returned one
C12_Witness ==
    /\ NormalizeReturned
    /\ value(l_result.m_step_count) >= 2
    /\ l_result.m_size_peak < size(this_expr)
    /\ size(l_result.m_expr) < l_result.m_size_peak

\* C13: every node of every term made by the factories or returned by
\* construct_program, lift, substitute, reduce_one_step, clone or normalize
\* caches the size 1 for a variable, 1 + size(body) for an abstraction and
\* 1 + size(lhs) + size(rhs) for an application.
C13_SizesExact ==
    /\ this_expr # nullptr => SizesExact(this_expr)
    /\ l_ret # nullptr => SizesExact(l_ret)
    /\ l_result # nullptr => SizesExact(l_result.m_expr)
    /\ a_arg # nullptr => SizesExact(a_arg)
    /\ l_main # nullptr => SizesExact(l_main)
    /\ \A i \in 1..Len(l_helpers) : SizesExact(l_helpers[i])

\* substitute returned, from an abstraction, a term of another size
C13_Witness ==
    /\ Returned("substitute")
    /\ this_expr.tag = "func"
    /\ size(l_ret) > size(this_expr)
    /\ SizesExact(l_ret)

\* the unique_ptr that owns what the call returned, null before the return
\* and after the destruction
ReturnedPtr ==
    IF heap_call.op = "normalize" /\ heap_result # nullptr
    THEN heap_result.m_expr
    ELSE heap_ret

\* the nodes the caller's terms are made of
InputNodes ==
    nodes_of(heap, heap_in.arg) \cup nodes_of(heap, heap_in.main)
        \cup UNION {nodes_of(heap, heap_in.helpers[i]) :
                        i \in 1..Len(heap_in.helpers)}
        \cup (IF Len(heap_in.helpers) = 0 /\ heap_in.main = heap_nullptr
              THEN nodes_of(heap, heap_in.this) ELSE {})

\* every term of the caller reads as the term it was built as
InputsIntact ==
    /\ term_at(heap, heap_in.arg) = was.arg
    /\ term_at(heap, heap_in.main) = was.main
    /\ Len(heap_in.helpers) = Len(was.helpers)
    /\ \A i \in 1..Len(was.helpers) :
          term_at(heap, heap_in.helpers[i]) = was.helpers[i]
    /\ heap_pc # "build" => term_at(heap, heap_in.this) = was.this

\* what was returned is made of nodes of its own: none of them is a node of
\* a term of the caller, and the program construct_program returned has no
\* node of a helper or of the main function
NothingShared ==
    /\ nodes_of(heap, ReturnedPtr) \cap InputNodes = {}
    /\ nodes_of(heap, ReturnedPtr) \cap nodes_of(heap, heap_in.this) = {}
    /\ heap_in.main # heap_nullptr
       => nodes_of(heap, heap_in.this) \cap InputNodes = {}

\* the term returned on the heap is the term the operation computes
ReturnedTerm ==
    heap_pc = "return"
    => /\ heap_call.op = "lift"
          => term_at(heap, heap_ret)
                 = lift(was.this, heap_call.a_lift_amount, heap_call.a_cutoff)
       /\ heap_call.op = "substitute"
          => term_at(heap, heap_ret)
                 = substitute(was.this, heap_call.a_lift_amount,
                              heap_call.a_var_index, was.arg)
       /\ heap_call.op = "reduce_one_step"
          => term_at(heap, heap_ret)
                 = reduce_one_step(was.this, heap_call.a_depth)
       /\ heap_call.op = "clone"
          => term_at(heap, heap_ret) = clone(was.this)
       /\ heap_call.op = "normalize"
          => [heap_result EXCEPT
                  !.m_expr = term_at(heap, heap_result.m_expr)]
                 = normalize(was.this, heap_call.a_step_limit,
                             heap_call.a_size_limit)

\* C15: construct_program, lift, substitute, reduce_one_step, clone and
\* normalize never change the term they are called on or a term passed to
\* them: in every pass of normalize, after every call, and after the term
\* the call returned has been destroyed, the term the member function was
\* called on, the argument of substitute, the helpers and the main function
\* are node for node the terms the caller built; the term returned shares
\* no node with any of them, so that replacing or destroying it cannot
\* reach them; and it is the term the operation computes.
C15_InputsUnchanged ==
    heap_pc # "idle" => InputsIntact /\ NothingShared /\ ReturnedTerm

\* substitute has returned, for a term holding the replaced variable next
\* to a variable declared outside the redex, with lift amount 0, a term
\* that was then destroyed
C15_Witness ==
    /\ heap_pc = "destroyed"
    /\ heap_call.op = "substitute"
    /\ heap_call.a_lift_amount = 0
    /\ heap_call.a_var_index = 1
    /\ was.this = a(v(0), v(1))
    /\ was.arg.tag = "func"
    /\ \E p \in 1..Len(heap) : heap[p] = freed
    /\ term_at(heap, heap_in.arg) = was.arg

\* normalize committed reductions, returned, and its result was destroyed
NormalizeResultDestroyed ==
    /\ heap_pc = "destroyed"
    /\ heap_call.op = "normalize"
    /\ value(heap_result.m_step_count) >= 2
    /\ term_at(heap, heap_in.this) = was.this

\* normalize returned from a program built of two helpers
ProgramNormalized ==
    /\ heap_pc = "return"
    /\ heap_call.op = "normalize"
    /\ Len(was.helpers) = 2
    /\ value(heap_result.m_step_count) >= 2

\* ------------------------------------------------------------------------
\* Identities of lift and clone
\* ------------------------------------------------------------------------
\* C16: lift with amount 0 returns, for every cutoff, a term structurally
\* equal to the one it is called on; clone, which starts normalize, returns
\* a term structurally equal to it and of the same size.
C16_LiftZeroIsIdentity ==
    /\ (Returned("lift") /\ a_lift_amount = 0)
       => equals(l_ret, this_expr) /\ size(l_ret) = size(this_expr)
    /\ (op = "normalize" /\ value(l_result.m_step_count) = 0)
       => /\ equals(l_result.m_expr, this_expr)
          /\ size(l_result.m_expr) = size(this_expr)
          /\ equals(clone(this_expr), this_expr)

\* lift with amount 0 returned from an application of two different sides
\* that holds variables on both sides of the cutoff
C16_Witness ==
    /\ Returned("lift")
    /\ a_lift_amount = 0
    /\ this_expr.tag = "app"
    /\ ~equals(this_expr.m_lhs, this_expr.m_rhs)
    /\ \E i \in Indices(this_expr) : i >= a_cutoff
    /\ \E i \in Indices(this_expr) : i < a_cutoff
    /\ equals(l_ret, this_expr)

\* ------------------------------------------------------------------------
\* Programs: the binding tower of construct_program
\* ------------------------------------------------------------------------
\* e is the binding tower of helpers around main: an application of an
\* abstraction to the first helper, whose body is the tower of the other
\* helpers, down to a term equal to main
RECURSIVE IsTower(_, _, _)
IsTower(e, helpers, main) ==
    IF helpers = <<>>
    THEN equals(e, main)
    ELSE /\ e.tag = "app"
         /\ e.m_lhs.tag = "func"
         /\ equals(e.m_rhs, Head(helpers))
         /\ IsTower(e.m_lhs.m_body, Tail(helpers), main)

\* the number of nodes of the helpers
RECURSIVE HelpersSize(_)
HelpersSize(helpers) ==
    IF helpers = <<>> THEN 0 ELSE size(Head(helpers)) + HelpersSize(Tail(helpers))

\* the term that construct_program returned, before any member function runs
Constructed == l_main # nullptr /\ pc = "call" /\ op = "none"

\* C17: construct_program returns, for a non-empty helper list, the
\* application of Func(construct_program of the other helpers) to the first
\* helper, so the main term lies under exactly as many Func nodes as there
\* are helpers; for the empty list it returns a term equal to the main term;
\* it contracts nothing: the result holds the nodes of the helpers and of the
\* main term and one App and one Func per helper, redexes of the helpers
\* included.
C17_BindingTower ==
    Constructed =>
        /\ IsTower(this_expr, l_helpers, l_main)
        /\ size(this_expr) = size(l_main) + HelpersSize(l_helpers)
                                 + 2 * Len(l_helpers)
        /\ l_helpers = <<>> => equals(this_expr, clone(l_main))
        /\ l_helpers # <<>> =>
              /\ equals(this_expr.m_lhs.m_body,
                        construct_program(Tail(l_helpers), l_main))
              /\ equals(this_expr.m_rhs, l_helpers[1])

\* construct_program returned the tower of two different helpers, the first
\* of which holds a redex that is still there
C17_Witness ==
    /\ Constructed
    /\ l_helpers = RedexHelpers
    /\ l_main.tag = "var"
    /\ HasRedex(this_expr.m_rhs)
    /\ equals(Peel(this_expr.m_lhs.m_body.m_lhs, 1), l_main)

\* e with every variable index decreased by k
RECURSIVE DecreaseIndices(_, _)
DecreaseIndices(e, k) ==
    CASE e.tag = "var" -> v(e.m_index - k)
      [] e.tag = "func" -> f(DecreaseIndices(e.m_body, k))
      [] e.tag = "app" -> a(DecreaseIndices(e.m_lhs, k),
                            DecreaseIndices(e.m_rhs, k))

\* every helper is in beta-normal form and written for its depth: helper j,
\* counted from 0, holds no variable index below j
HelpersWrittenForDepth ==
    \A j \in 1..Len(l_helpers) :
        /\ ~HasRedex(l_helpers[j])
        /\ \A i \in Indices(l_helpers[j]) : i >= j - 1

\* C18: for helpers in beta-normal form, each written for its depth, and a
\* main term Var(k) with k below the number of helpers, normalize of the
\* program returns without excess the k-th helper with every variable index
\* decreased by k.
C18_VarRefersToHelper ==
    (/\ NormalizeReturned
     /\ Unlimited
     /\ l_main # nullptr
     /\ l_main.tag = "var"
     /\ l_main.m_index < Len(l_helpers)
     /\ HelpersWrittenForDepth)
    => /\ ~l_result.m_step_excess
       /\ ~l_result.m_size_excess
       /\ equals(l_result.m_expr,
                 DecreaseIndices(l_helpers[l_main.m_index + 1],
                                 l_main.m_index))

\* normalize returned the second of two different helpers, an abstraction,
\* with its indices decreased by one
C18_Witness ==
    /\ NormalizeReturned
    /\ Unlimited
    /\ l_main # nullptr
    /\ Len(l_helpers) = 2
    /\ l_main = v(1)
    /\ HelpersWrittenForDepth
    /\ l_helpers[2].tag = "func"
    /\ ~equals(l_helpers[1], l_helpers[2])
    /\ ~equals(l_result.m_expr, l_helpers[2])
    /\ ~equals(l_result.m_expr, l_helpers[1])
    /\ equals(l_result.m_expr, DecreaseIndices(l_helpers[2], 1))

\* ------------------------------------------------------------------------
\* Worked examples
\* ------------------------------------------------------------------------
\* C19: normalize of App(App(Func(Var(0)), Var(5)), App(Func(Var(1)), Var(6)))
\* without limits takes exactly 2 steps: the first contracts the left redex
\* and gives App(Var(5), App(Func(Var(1)), Var(6))), the second contracts the
\* right one; it returns App(Var(5), Var(0)) with m_size_peak = 6 and no
\* excess flag.
C19_TwoRedexes ==
    (/\ op = "normalize"
     /\ Unlimited
     /\ l_main = nullptr
     /\ equals(this_expr, TwoRedexes))
    => /\ value(l_result.m_step_count) <= 2
       /\ value(l_result.m_step_count) = 1
          => equals(l_result.m_expr, a(v(5), a(f(v(1)), v(6))))
       /\ NormalizeReturned
          => /\ value(l_result.m_step_count) = 2
             /\ equals(l_result.m_expr, a(v(5), v(0)))
             /\ l_result.m_size_peak = 6
             /\ ~l_result.m_step_excess
             /\ ~l_result.m_size_excess

\* normalize without limits returned from the term of two redexes
C19_Witness ==
    /\ NormalizeReturned
    /\ Unlimited
    /\ equals(this_expr, TwoRedexes)
    /\ value(l_result.m_step_count) = 2
    /\ l_result.m_expr.m_rhs.m_index = 0

\* C20: normalize of construct_program(<<ZERO, SUCC>>, App(Var(1), Var(0))),
\* with ZERO = Func(Func(Var(1))) and SUCC = Func(Func(Func(App(Var(2),
\* App(App(Var(1), Var(2)), Var(3)))))), returns Church one,
\* Func(Func(App(Var(0), Var(1)))), with both excess flags false; so does
\* the program of the use case, where the helpers of the booleans precede
\* ZERO and SUCC.
C20_SuccZeroIsOne ==
    /\ equals(ZERO(0), f(f(v(1))))
    /\ equals(SUCC(1), f(f(f(a(v(2), a(a(v(1), v(2)), v(3)))))))
    /\ equals(ONE(0), a(v(1), v(0)))
    /\ (/\ NormalizeReturned
        /\ Unlimited
        /\ l_main # nullptr
        /\ \/ l_helpers = ChurchHelpers /\ equals(l_main, ONE(0))
           \/ l_helpers = UseCaseHelpers /\ equals(l_main, ONE(2)))
       => /\ equals(l_result.m_expr, f(f(a(g(0), g(1)))))
          /\ ~l_result.m_step_excess
          /\ ~l_result.m_size_excess

\* normalize returned from the program SUCC ZERO of the two helpers after
\* contracting the two redexes of the tower and the redexes of SUCC applied
\* to ZERO
C20_Witness ==
    /\ NormalizeReturned
    /\ l_helpers = ChurchHelpers
    /\ l_main # nullptr
    /\ equals(l_main, ONE(0))
    /\ value(l_result.m_step_count) > 2
    /\ l_result.m_expr.tag = "func"
    /\ ~HasRedex(l_result.m_expr)

\* normalize returned from the program SUCC ZERO of the use case
UseCaseReturned ==
    /\ NormalizeReturned
    /\ l_helpers = UseCaseHelpers
    /\ l_main # nullptr
    /\ equals(l_main, ONE(2))

\* ------------------------------------------------------------------------
\* Termination and the limits
\* ------------------------------------------------------------------------
\* C21: with a finite step limit N normalize returns, for every term, also
\* one without a normal form: the number of committed reductions never
\* exceeds N, and every pass of the loop, which calls reduce_one_step once,
\* either commits one more reduction or is the last one, so reduce_one_step
\* is called at most N + 1 times.
C21_FiniteStepLimitTerminates ==
    /\ [](op = "normalize" /\ a_step_limit # SIZE_MAX
          => less_equal(l_result.m_step_count, a_step_limit))
    /\ [][(pc = "loop" /\ a_step_limit # SIZE_MAX)
          => \/ /\ pc' = "loop"
                /\ l_result'.m_step_count = increment(l_result.m_step_count)
                /\ less_equal(l_result'.m_step_count, a_step_limit)
             \/ /\ pc' = "return"
                /\ l_result'.m_step_count = l_result.m_step_count]_vars
    /\ (op = "normalize" /\ pc = "loop" /\ a_step_limit # SIZE_MAX)
           ~> NormalizeReturned

\* normalize with the largest finite step limit and no size limit returned
\* from the growing term, which has no normal form
C21_Witness ==
    /\ NormalizeReturned
    /\ equals(this_expr, Grow)
    /\ a_step_limit = size_t(MaxStepLimit)
    /\ a_size_limit = SIZE_MAX
    /\ l_result.m_step_excess
    /\ l_result.m_step_count = a_step_limit
    /\ HasRedex(l_result.m_expr)

\* ------------------------------------------------------------------------
\* Combinators
\* ------------------------------------------------------------------------
\* this_expr is App(App(K, A), B)
AppliesK ==
    /\ this_expr.tag = "app"
    /\ this_expr.m_lhs.tag = "app"
    /\ equals(this_expr.m_lhs.m_lhs, K)

\* C22: for all terms A and B, reduce_one_step at depth 0 takes
\* App(App(K, A), B), with K = Func(Func(Var(0))), to App(Func(A'), B) where
\* A' is A with every index raised by one, and a second reduce_one_step at
\* depth 0 takes that to a term structurally equal to A; normalize of
\* S K K a returns a and normalize of S I I a returns App(a, a) for a
\* variable a.
C22_CombinatorIdentities ==
    /\ (Returned("reduce_one_step") /\ a_depth = 0 /\ AppliesK)
       => /\ l_ret # nullptr
          /\ l_ret.tag = "app"
          /\ l_ret.m_lhs.tag = "func"
          /\ equals(l_ret.m_rhs, this_expr.m_rhs)
          /\ \A i \in Indices(l_ret.m_lhs.m_body) : i >= 1
          /\ equals(DecreaseIndices(l_ret.m_lhs.m_body, 1),
                    this_expr.m_lhs.m_rhs)
          /\ equals(reduce_one_step(l_ret, 0), this_expr.m_lhs.m_rhs)
    /\ (op = "normalize" /\ AppliesK /\ value(l_result.m_step_count) = 2)
       => equals(l_result.m_expr, this_expr.m_lhs.m_rhs)
    /\ \A x \in CombinatorVars :
          (NormalizeReturned /\ Unlimited)
          => /\ equals(this_expr, a(a(a(S, K), K), x))
                => /\ equals(l_result.m_expr, x)
                   /\ ~l_result.m_step_excess
                   /\ ~l_result.m_size_excess
             /\ equals(this_expr, a(a(a(S, I), I), x))
                => /\ equals(l_result.m_expr, a(x, x))
                   /\ ~l_result.m_step_excess
                   /\ ~l_result.m_size_excess

\* normalize committed two reductions on K applied to an abstraction and to
\* a second argument, and holds the abstraction
C22_Witness ==
    /\ op = "normalize"
    /\ AppliesK
    /\ this_expr.m_lhs.m_rhs.tag = "func"
    /\ 0 \in Indices(this_expr.m_lhs.m_rhs)
    /\ ~equals(this_expr.m_lhs.m_rhs, this_expr.m_rhs)
    /\ value(l_result.m_step_count) = 2
    /\ equals(l_result.m_expr, this_expr.m_lhs.m_rhs)

\* normalize without limits returned from S K K a and from S I I a
SKKReturned ==
    /\ NormalizeReturned
    /\ Unlimited
    /\ equals(this_expr, a(a(a(S, K), K), v(10)))
    /\ equals(l_result.m_expr, v(10))
SIIReturned ==
    /\ NormalizeReturned
    /\ Unlimited
    /\ equals(this_expr, a(a(a(S, I), I), v(12)))
    /\ equals(l_result.m_expr, a(v(12), v(12)))

\* ------------------------------------------------------------------------
\* Programs: the locals of the main function
\* ------------------------------------------------------------------------
\* the main function is in beta-normal form and refers to no helper
MainIsLocal ==
    /\ l_main # nullptr
    /\ ~HasRedex(l_main)
    /\ \A i \in Indices(l_main) : i >= Len(l_helpers)

\* C23: for n helpers, whatever they are, and a main term in beta-normal
\* form whose every variable index is at least n, normalize of the program
\* takes exactly n steps and returns, without excess, the main term with
\* every variable index decreased by n.
C23_LocalsBecomeGlobals ==
    (NormalizeReturned /\ Unlimited /\ MainIsLocal)
    => /\ value(l_result.m_step_count) = Len(l_helpers)
       /\ equals(l_result.m_expr, DecreaseIndices(l_main, Len(l_helpers)))
       /\ ~l_result.m_step_excess
       /\ ~l_result.m_size_excess

\* normalize returned from the program of two helpers, the first without a
\* normal form, around a main term that binds a variable of its own
C23_Witness ==
    /\ NormalizeReturned
    /\ Unlimited
    /\ MainIsLocal
    /\ l_helpers = OmegaHelpers
    /\ l_main.tag = "app"
    /\ l_main.m_rhs.tag = "func"
    /\ value(l_result.m_step_count) = 2
    /\ ~equals(l_result.m_expr, l_main)

\* ------------------------------------------------------------------------
\* reduce_one_step on variables and abstractions
\* ------------------------------------------------------------------------
\* C24: reduce_one_step returns null on a Var at every depth; on Func(body)
\* it returns null when body has no redex and otherwise Func of what body
\* reduces to at depth + 1; so a redex below d abstractions is contracted
\* with a_var_index = a_depth + d: Var(a_depth + d) of its body is replaced
\* by the argument, higher variables drop by one and lower ones stay, as
\* in \.((\.1) 2) -> \.2 and \.((\.0) 1) -> \.0 at depth 0.
C24_ReduceVarAndFunc ==
    Returned("reduce_one_step")
    => /\ this_expr.tag = "var" => l_ret = nullptr
       /\ this_expr.tag = "func"
          => /\ l_ret = nullptr <=> ~HasRedex(this_expr.m_body)
             /\ l_ret # nullptr
                => /\ l_ret.tag = "func"
                   /\ equals(l_ret.m_body,
                             reduce_one_step(this_expr.m_body, a_depth + 1))
       /\ RedexUnderFuncs(this_expr)
          => LET d == LeadingFuncs(this_expr)
                 l_redex == Peel(this_expr, d)
                 l_body == l_redex.m_lhs.m_body
             IN  /\ LeadingFuncs(l_ret) >= d
                 /\ equals(Peel(l_ret, d),
                           substitute(l_body, 0, a_depth + d, l_redex.m_rhs))
                 /\ l_body.tag = "var"
                    => equals(Peel(l_ret, d),
                              IF l_body.m_index = a_depth + d
                              THEN l_redex.m_rhs
                              ELSE IF l_body.m_index > a_depth + d
                              THEN v(l_body.m_index - 1)
                              ELSE l_body)
       /\ (a_depth = 0 /\ equals(this_expr, f(a(f(v(1)), v(2)))))
          => equals(l_ret, f(v(2)))
       /\ (a_depth = 0 /\ equals(this_expr, f(a(f(v(0)), v(1)))))
          => equals(l_ret, f(v(0)))

\* reduce_one_step at depth 0 contracted a redex below two abstractions whose
\* body is Var(2), and returned the argument below two abstractions
C24_Witness ==
    /\ Returned("reduce_one_step")
    /\ a_depth = 0
    /\ RedexUnderFuncs(this_expr)
    /\ LeadingFuncs(this_expr) = 2
    /\ LET l_redex == Peel(this_expr, 2)
       IN  /\ equals(l_redex.m_lhs.m_body, v(2))
           /\ ~equals(l_redex.m_rhs, v(2))
           /\ l_ret # nullptr
           /\ equals(Peel(l_ret, 2), l_redex.m_rhs)

\* ------------------------------------------------------------------------
\* The limits of normalize
\* ------------------------------------------------------------------------
\* the reduction the next pass of the loop would commit, null if none
Candidate == reduce_one_step(l_result.m_expr, 0)

\* C25: the size limit is tested on candidates only: a term in normal form
\* that is larger than the size limit is returned with m_size_excess =
\* false and m_step_count = 0, and a term larger than the size limit whose
\* one-step reduct is not larger than the limit is reduced.
C25_SizeLimitOnCandidatesOnly ==
    (op = "normalize" /\ less(a_size_limit, size_t(size(this_expr))))
    => /\ (pc = "return" /\ ~HasRedex(this_expr))
          => /\ ~l_result.m_size_excess
             /\ ~l_result.m_step_excess
             /\ value(l_result.m_step_count) = 0
             /\ equals(l_result.m_expr, this_expr)
       /\ (/\ pc = "return"
           /\ HasRedex(this_expr)
           /\ a_step_limit # size_t(0)
           /\ less_equal(size_t(size(reduce_one_step(this_expr, 0))),
                         a_size_limit))
          => /\ value(l_result.m_step_count) >= 1
             /\ l_result.m_size_peak >= size(reduce_one_step(this_expr, 0))
       /\ value(l_result.m_step_count) = 1
          => equals(l_result.m_expr, reduce_one_step(this_expr, 0))

\* normalize returned the reduct of a term larger than the size limit
C25_Witness ==
    /\ NormalizeReturned
    /\ less(a_size_limit, size_t(size(this_expr)))
    /\ a_size_limit # size_t(0)
    /\ value(l_result.m_step_count) >= 1
    /\ ~l_result.m_size_excess
    /\ ~l_result.m_step_excess

\* normalize returned a normal form larger than the size limit
LargeNormalFormReturned ==
    /\ NormalizeReturned
    /\ ~HasRedex(this_expr)
    /\ less(a_size_limit, size_t(size(this_expr) - 1))
    /\ value(l_result.m_step_count) = 0

\* C26: the step limit is tested before the size limit: when normalize
\* returns holding a term that can be reduced, with m_step_count equal to
\* the step limit and a candidate larger than the size limit, m_step_excess
\* is true and m_size_excess is false.
C26_StepLimitBeforeSizeLimit ==
    (/\ NormalizeReturned
     /\ Candidate # nullptr
     /\ l_result.m_step_count = a_step_limit
     /\ less(a_size_limit, size_t(size(Candidate))))
    => /\ l_result.m_step_excess
       /\ ~l_result.m_size_excess

\* normalize committed reductions up to the step limit and returned in front
\* of a candidate that is also over the size limit
C26_Witness ==
    /\ NormalizeReturned
    /\ Candidate # nullptr
    /\ a_step_limit # size_t(0)
    /\ l_result.m_step_count = a_step_limit
    /\ less(a_size_limit, size_t(size(Candidate)))
    /\ l_result.m_step_excess

\* C27: in every result of normalize m_step_excess and m_size_excess are
\* never both true.
C27_NeverBothFlags ==
    op = "normalize" => ~(l_result.m_step_excess /\ l_result.m_size_excess)

\* normalize with step limit 0 returned in front of a candidate that is over
\* the size limit, with the step flag alone
C27_Witness ==
    /\ NormalizeReturned
    /\ a_step_limit = size_t(0)
    /\ Candidate # nullptr
    /\ less(a_size_limit, size_t(size(Candidate)))
    /\ l_result.m_step_excess
    /\ ~l_result.m_size_excess

\* normalize returned on the size limit, with the size flag alone
SizeFlagAlone ==
    /\ NormalizeReturned
    /\ l_result.m_size_excess
    /\ ~l_result.m_step_excess

\* C28: once a step is committed, the term normalize holds is not larger
\* than m_size_peak and m_size_peak is not larger than the size limit, in
\* every pass and at the return: every committed term has size at most the
\* size limit.
C28_CommittedWithinSizeLimit ==
    (op = "normalize" /\ value(l_result.m_step_count) > 0)
    => /\ size(l_result.m_expr) <= l_result.m_size_peak
       /\ less_equal(size_t(l_result.m_size_peak), a_size_limit)
       /\ less_equal(size_t(size(l_result.m_expr)), a_size_limit)

\* normalize returned after two steps a term smaller than the peak, under a
\* finite size limit
C28_Witness ==
    /\ NormalizeReturned
    /\ a_size_limit # SIZE_MAX
    /\ value(l_result.m_step_count) >= 2
    /\ size(l_result.m_expr) < l_result.m_size_peak
    /\ less_equal(size_t(l_result.m_size_peak), a_size_limit)

\* ------------------------------------------------------------------------
\* Resuming normalize
\* ------------------------------------------------------------------------
\* C29: with no size limit and finite step limits N and M, normalize with
\* step limit M of the term that normalize with step limit N returned gives
\* a term structurally equal to the one normalize with step limit N + M
\* returns for the original term, and the step counts of the two runs add
\* up to the step count of that run; the second run reports a step excess
\* exactly when that run does.
C29_Resumable ==
    (NormalizeReturned /\ a_size_limit = SIZE_MAX /\ a_step_limit # SIZE_MAX)
    => \A l_more \in 0..MaxStepLimit :
          LET l_second == normalize(l_result.m_expr, size_t(l_more), SIZE_MAX)
              l_whole == normalize(this_expr,
                                   size_t(value(a_step_limit) + l_more),
                                   SIZE_MAX)
          IN  /\ equals(l_second.m_expr, l_whole.m_expr)
              /\ value(l_result.m_step_count) + value(l_second.m_step_count)
                     = value(l_whole.m_step_count)
              /\ l_second.m_step_excess = l_whole.m_step_excess

\* normalize returned on a step limit of at least 1 from a term that a
\* second run with one more step takes further, without reaching a normal
\* form
C29_Witness ==
    /\ NormalizeReturned
    /\ a_size_limit = SIZE_MAX
    /\ a_step_limit # SIZE_MAX
    /\ a_step_limit # size_t(0)
    /\ l_result.m_step_excess
    /\ LET l_second == normalize(l_result.m_expr, size_t(1), SIZE_MAX)
       IN  /\ value(l_second.m_step_count) = 1
           /\ ~equals(l_second.m_expr, l_result.m_expr)
           /\ equals(l_second.m_expr,
                     normalize(this_expr, increment(a_step_limit),
                               SIZE_MAX).m_expr)

\* ------------------------------------------------------------------------
\* Unsigned indices
\* ------------------------------------------------------------------------
\* the number of abstractions of e: an upper bound of what func::substitute
\* adds to the lift amount on the way to a variable
RECURSIVE SizeOfBinders(_)
SizeOfBinders(e) ==
    CASE e.tag = "var" -> 0
      [] e.tag = "func" -> 1 + SizeOfBinders(e.m_body)
      [] e.tag = "app" -> SizeOfBinders(e.m_lhs) + SizeOfBinders(e.m_rhs)

\* the largest index of the variables of e, 0 if there is none
IndexMax(e) == IF Indices(e) = {} THEN 0 ELSE SetMax(Indices(e))

\* C30: substitute never wraps an index below zero: a variable is
\* decremented only when its index is above a_var_index, hence at least 1;
\* so no index of the result is negative or wrapped, and every index lies
\* between 0 and the largest index of the term and of the argument lifted
\* across the abstractions of the term.
C30_NoIndexWraps ==
    Returned("substitute")
    => \A i \in Indices(l_ret) :
          /\ i >= 0
          /\ i <= max(IndexMax(this_expr), IndexMax(a_arg) + a_lift_amount)
                  + SizeOfBinders(this_expr)

\* substitute for Var(0) returned from a term that holds Var(0) and Var(1):
\* Var(0) was replaced and Var(1) became Var(0)
C30_Witness ==
    /\ Returned("substitute")
    /\ a_var_index = 0
    /\ this_expr.tag = "app"
    /\ equals(this_expr.m_lhs, v(0))
    /\ equals(this_expr.m_rhs, v(1))
    /\ equals(l_ret.m_rhs, v(0))
    /\ equals(l_ret.m_lhs, lift(a_arg, a_lift_amount, 0))

====
